---- MODULE Spec2Model ----
(***************************************************************************)
(* Model of gote's bidirectional streaming buffer: the record list with    *)
(* its screen cursor (bufferRecordList), the backwards line scanner and    *)
(* the forwards line scanner.                                              *)
(*                                                                         *)
(* The doubly linked list head/tail/prev/next is the sequence recs; a node *)
(* pointer is the node's index in recs and nil is 0.  A record is the      *)
(* sequence of its display lines.  Bytes are numbers, '\n' is 10.          *)
(***************************************************************************)
EXTENDS Integers, Sequences, FiniteSets, TLC

\* ------------------------------------------------------------------ bounds
MaxRecords == 3     \* records linked in the list at once
MaxLines   == 3     \* display lines of one record
MaxScroll  == 4     \* argument of ScrollUp / ScrollDown
MaxHeight  == 3     \* argument of ScrollToBottom
MaxDrift   == 3     \* largest error of a cached line counter that is explored

MaxFile    == 4     \* bytes in the stable file
MaxChunk   == 3     \* chunkSize of the backwards scanner
MaxRead    == 2     \* most bytes one Read call of the file handle returns
MaxPastEOF == 2     \* ReadLine calls made after the first io.EOF
MaxAppend  == 2     \* bytes one append to the file adds
MaxStream  == 6     \* bytes in the growing file

MaxPairs   == 2     \* setupAsyncReads calls, each with a pair of producers
MaxWidth   == 1     \* the wrap width of the Buffer
MaxLog     == 2     \* lines in the file the Buffer reads
MaxScreen  == 2     \* the height of the screen of the Buffer
MaxRaceFile == 2    \* bytes in the file two callers seek in
MaxFairFile == 3    \* empty lines in the file of the fair behaviours
MaxEager   == 2     \* bkdEager and fwdEager when set apart from the height
MaxAvail   == 3     \* lines above and below the screen given to the calculation
MaxIdleFile == 4    \* empty lines in the file the producers go idle on
MaxCalls   == 2     \* calls of cancelPopulate and of continueAsyncReads of one pair

VARIABLES
    list,       \* the bufferRecordList
    panicked,   \* a nil dereference has stopped the program
    file,       \* the bytes of the input file
    maxRead,    \* the file handles return at most this many bytes per Read
    bls,        \* the BackwardsLineScanner
    brd,        \* seek position of the backwards scanner's file handle
    bout,       \* the results of the ReadLine calls so far, in call order
    startPos,   \* the position NewBackwardsLineScanner resolved (P0)
    fls,        \* the ForwardsLineScanner with its current bufio.Scanner
    frd,        \* seek position of the forwards scanner's file handle
    fout,       \* Bytes() at the Scan calls that returned true, in call order
    fcall,      \* the last Scan call: result, Bytes(), Err(), the file length
                \* then, whether a partial token was pending when it began,
                \* and whether the reader has returned a hard error by now
    fwdBroken,  \* the forwards scanner's reader fails with a hard I/O error
    rcall,      \* the chain of ReadBackwardsFrom calls of a reader of its own
    cfg,        \* Buffer: width, height, followMode, the eagerness, the projection
    mu,         \* Buffer.mu: the thread that holds it, 0 when free
    muCancel,   \* Buffer.muCancelPopulate: the thread that holds it, 0 when free
    cancelPair, \* the pair b.cancelPopulate cancels, 0 for the one of NewBuffer
    cont,       \* the pair b.continueAsyncReads wakes, 0 for the one of NewBuffer
    pairs,      \* the producer pairs set up so far, each with its goroutines
    thr,        \* the threads that call SeekAndPopulate
    listMu,     \* the list's mutex: <<pair, producer>> of the holder, <<>> when free
    shadow,     \* unlockedInst of the WithLock call in progress
    offs        \* the file offsets of the lines the records in the list came from

listVars == <<list, panicked>>
backVars == <<bls, brd, bout, startPos>>
fwdVars  == <<fls, frd, fout, fcall>>
scanVars == <<file, maxRead, backVars, fwdVars, fwdBroken, rcall>>
coVars == <<cfg, mu, muCancel, cancelPair, cont, pairs, thr, listMu, shadow, offs>>
vars == <<listVars, scanVars, coVars>>

\* ------------------------------------------------------------- helpers
Min(a, b) == IF a < b THEN a ELSE b
Max(a, b) == IF a > b THEN a ELSE b

RECURSIVE SumLens(_)
SumLens(rs) == IF rs = <<>> THEN 0 ELSE Len(Head(rs)) + SumLens(Tail(rs))

\* a record with n display lines (record.lines)
MkRecord(n) == [i \in 1..n |-> i]

\* --------------------------------------------------------- bufferRecordList
NewBufferRecordList ==
    [ recs                |-> <<>>,
      screenTop           |-> 0,
      screenTopOffset     |-> 0,
      linesAboveScreenTop |-> 0,
      linesBelowScreenTop |-> 0,
      linesTotal          |-> 0 ]

\* linesTotal left out of the update
ListAppend_NoTotal(l, r) ==
    LET l1 == [l EXCEPT !.recs = Append(@, r)]
        l2 == IF l1.screenTop = 0
              THEN [l1 EXCEPT !.screenTop = Len(l1.recs), !.screenTopOffset = 0]
              ELSE l1
    IN [l2 EXCEPT !.linesBelowScreenTop = @ + Len(r)]

\* bufferRecordList.Append (Append is taken by Sequences)
ListAppend(l, r) ==
    LET l1 == [l EXCEPT !.recs = Append(@, r)]
        l2 == IF l1.screenTop = 0
              THEN [l1 EXCEPT !.screenTop = Len(l1.recs), !.screenTopOffset = 0]
              ELSE l1
        numLines == Len(r)
    IN [l2 EXCEPT !.linesBelowScreenTop = @ + numLines,
                  !.linesTotal          = @ + numLines]

\* Prepend that links the record after tail
Prepend_AtTail(l, r) == ListAppend(l, r)

Prepend(l, r) ==
    LET \* the nodes move one place to the right; the cursor keeps its node
        l1 == [l EXCEPT !.recs = <<r>> \o @,
                        !.screenTop = IF @ = 0 THEN 0 ELSE @ + 1]
        l2 == IF l1.screenTop = 0
              THEN [l1 EXCEPT !.screenTop = 1, !.screenTopOffset = 0]
              ELSE l1
        numLines == Len(r)
    IN [l2 EXCEPT !.linesAboveScreenTop = @ + numLines,
                  !.linesTotal          = @ + numLines]

PopFirst(l) ==
    IF l.recs = <<>> THEN l
    ELSE
      LET head == l.recs[1]
          rest == Tail(l.recs)
          l1 == IF rest = <<>>
                THEN [l EXCEPT !.recs = rest,
                               !.screenTop = 0,
                               !.screenTopOffset = 0,
                               !.linesAboveScreenTop = 0,
                               !.linesBelowScreenTop = 0]
                ELSE IF l.screenTop = 1
                THEN [l EXCEPT !.recs = rest,
                               !.linesAboveScreenTop = @ - l.screenTopOffset,
                               !.screenTop = 1,
                               !.screenTopOffset = 0]
                ELSE [l EXCEPT !.recs = rest,
                               !.screenTop = @ - 1,
                               !.linesAboveScreenTop = @ - Len(head)]
      IN [l1 EXCEPT !.linesTotal = @ - Len(head)]

\* the cursor left on the removed tail
PopLast_KeepCursor(l) ==
    IF l.recs = <<>> THEN l
    ELSE
      LET n    == Len(l.recs)
          tail == l.recs[n]
          rest == SubSeq(l.recs, 1, n - 1)
          l1 == IF rest = <<>>
                THEN [l EXCEPT !.recs = rest,
                               !.screenTop = 0,
                               !.screenTopOffset = 0,
                               !.linesAboveScreenTop = 0,
                               !.linesBelowScreenTop = 0]
                ELSE [l EXCEPT !.recs = rest,
                               !.linesBelowScreenTop = @ - Len(tail)]
      IN [l1 EXCEPT !.linesTotal = @ - Len(tail)]

PopLast(l) ==
    IF l.recs = <<>> THEN l
    ELSE
      LET n    == Len(l.recs)
          tail == l.recs[n]
          rest == SubSeq(l.recs, 1, n - 1)
          l1 == IF rest = <<>>
                THEN [l EXCEPT !.recs = rest,
                               !.screenTop = 0,
                               !.screenTopOffset = 0,
                               !.linesAboveScreenTop = 0,
                               !.linesBelowScreenTop = 0]
                ELSE IF l.screenTop = n
                THEN [l EXCEPT !.recs = rest,
                               !.linesBelowScreenTop = @ - (Len(tail) - l.screenTopOffset),
                               !.screenTop = n - 1,
                               !.screenTopOffset = 0]
                ELSE [l EXCEPT !.recs = rest,
                               !.linesBelowScreenTop = @ - Len(tail)]
      IN [l1 EXCEPT !.linesTotal = @ - Len(tail)]

Clear(l) == NewBufferRecordList

\* The loop of ScrollUp: l carries screenTopOffset, nextScreenTop is the local.
RECURSIVE ScrollUpLoop(_, _, _, _)
ScrollUpLoop(l, nextScreenTop, lines, linesMoved) ==
    IF l.screenTopOffset >= lines
    THEN [l |-> [l EXCEPT !.screenTopOffset = @ - lines,
                          !.screenTop = nextScreenTop,
                          !.linesAboveScreenTop = @ - (linesMoved + lines),
                          !.linesBelowScreenTop = @ + (linesMoved + lines)],
          ret |-> linesMoved + lines]
    ELSE
      LET consume == l.screenTopOffset > 0
          lines1  == IF consume THEN lines - l.screenTopOffset ELSE lines
          moved1  == IF consume THEN linesMoved + l.screenTopOffset ELSE linesMoved
          l1      == IF consume THEN [l EXCEPT !.screenTopOffset = 0] ELSE l
      IN IF nextScreenTop = 1
         THEN [l |-> [l1 EXCEPT !.screenTop = nextScreenTop,
                                !.linesAboveScreenTop = @ - moved1,
                                !.linesBelowScreenTop = @ + moved1],
               ret |-> moved1]
         ELSE ScrollUpLoop(
                [l1 EXCEPT !.screenTopOffset = Len(l.recs[nextScreenTop - 1]) - 1],
                nextScreenTop - 1, lines1 - 1, moved1 + 1)

\* the counters left out of the update
ScrollUp_NoCounters(l, lines) ==
    IF l.screenTop = 0 THEN [l |-> l, ret |-> 0]
    ELSE LET r == ScrollUpLoop(l, l.screenTop, lines, 0)
         IN [r EXCEPT !.l.linesAboveScreenTop = l.linesAboveScreenTop,
                      !.l.linesBelowScreenTop = l.linesBelowScreenTop]

ScrollUp(l, lines) ==
    IF l.screenTop = 0 THEN [l |-> l, ret |-> 0]
    ELSE ScrollUpLoop(l, l.screenTop, lines, 0)

RECURSIVE ScrollDownLoop(_, _, _, _)
ScrollDownLoop(l, nextScreenTop, lines, linesMoved) ==
    LET linesLeftInRecord == Len(l.recs[nextScreenTop]) - l.screenTopOffset - 1 IN
    IF linesLeftInRecord >= lines
    THEN [l |-> [l EXCEPT !.screenTopOffset = @ + lines,
                          !.screenTop = nextScreenTop,
                          !.linesAboveScreenTop = @ + (linesMoved + lines),
                          !.linesBelowScreenTop = @ - (linesMoved + lines)],
          ret |-> linesMoved + lines]
    ELSE
      LET consume == linesLeftInRecord > 0
          lines1  == IF consume THEN lines - linesLeftInRecord ELSE lines
          moved1  == IF consume THEN linesMoved + linesLeftInRecord ELSE linesMoved
          l1      == IF consume
                     THEN [l EXCEPT !.screenTopOffset = @ + linesLeftInRecord]
                     ELSE l
      IN IF nextScreenTop = Len(l.recs)
         THEN [l |-> [l1 EXCEPT !.screenTop = nextScreenTop,
                                !.linesAboveScreenTop = @ + moved1,
                                !.linesBelowScreenTop = @ - moved1],
               ret |-> moved1]
         ELSE ScrollDownLoop([l1 EXCEPT !.screenTopOffset = 0],
                             nextScreenTop + 1, lines1 - 1, moved1 + 1)

\* the lines asked for returned instead of the lines moved
ScrollDown_ReturnsAsked(l, lines) ==
    IF l.screenTop = 0 THEN [l |-> l, ret |-> 0]
    ELSE [ScrollDownLoop(l, l.screenTop, lines, 0) EXCEPT !.ret = lines]

ScrollDown(l, lines) ==
    IF l.screenTop = 0 THEN [l |-> l, ret |-> 0]
    ELSE ScrollDownLoop(l, l.screenTop, lines, 0)

\* records.tail is dereferenced unconditionally: the caller must hold a
\* non-empty list (ScrollToBottomPanics otherwise).
ScrollToBottomPanics(l) == l.recs = <<>>

ScrollToBottom(l, height) ==
    LET n  == Len(l.recs)
        l1 == [l EXCEPT !.screenTop = n,
                        !.screenTopOffset = Len(l.recs[n]) - 1,
                        !.linesBelowScreenTop = 1,
                        !.linesAboveScreenTop = l.linesTotal - 1]
    IN IF height > 1 THEN ScrollUp(l1, height - 1).l ELSE l1

\* (aboveScreen, onScreen, belowScreen) from the counters
CalcScreenLines(l, screenHeight) ==
    [ aboveScreen |-> l.linesAboveScreenTop,
      onScreen    |-> IF l.linesBelowScreenTop <= screenHeight
                      THEN l.linesBelowScreenTop ELSE screenHeight,
      belowScreen |-> IF l.linesBelowScreenTop <= screenHeight
                      THEN 0 ELSE l.linesBelowScreenTop - screenHeight ]

\* The loop of GetLinesToRender over the nodes from record on.
RECURSIVE GetLinesLoop(_, _, _, _)
GetLinesLoop(recs, record, offset, lineCount) ==
    IF record = 0 \/ record > Len(recs) THEN <<>>
    ELSE LET takeLines == Len(recs[record]) - offset IN
         IF takeLines >= lineCount
         THEN SubSeq(recs[record], offset + 1, offset + lineCount)
         ELSE SubSeq(recs[record], offset + 1, Len(recs[record]))
                  \o GetLinesLoop(recs, record + 1, 0, lineCount - takeLines)

\* every record to the tail, whatever lineCount is
GetLinesToRender_All(l, lineCount) ==
    GetLinesLoop(l.recs, l.screenTop, l.screenTopOffset, SumLens(l.recs))

GetLinesToRender(l, lineCount) ==
    GetLinesLoop(l.recs, l.screenTop, l.screenTopOffset, lineCount)

\* ------------------------------------------------------------ list actions
\* The display lines before the cursor line and from the cursor line on,
\* counted on the records themselves.
LinesBefore(l) ==
    IF l.screenTop = 0 THEN 0
    ELSE SumLens(SubSeq(l.recs, 1, l.screenTop - 1)) + l.screenTopOffset
LinesFrom(l) == SumLens(l.recs) - LinesBefore(l)

\* The cached counters can drift away from the records without limit; the
\* exploration stops where the error of one of them exceeds MaxDrift.
InCounterBounds(l) ==
    /\ l.linesAboveScreenTop - LinesBefore(l) \in (0 - MaxDrift)..MaxDrift
    /\ l.linesBelowScreenTop - LinesFrom(l) \in (0 - MaxDrift)..MaxDrift

Did(l) ==
    /\ InCounterBounds(l)
    /\ list' = l
    /\ UNCHANGED <<panicked, scanVars, coVars>>

ListInit ==
    /\ list = NewBufferRecordList
    /\ panicked = FALSE

DoAppend ==
    /\ ~panicked
    /\ Len(list.recs) < MaxRecords
    /\ \E n \in 1..MaxLines : Did(ListAppend(list, MkRecord(n)))

DoPrepend ==
    /\ ~panicked
    /\ Len(list.recs) < MaxRecords
    /\ \E n \in 1..MaxLines : Did(Prepend(list, MkRecord(n)))

DoPopFirst ==
    /\ ~panicked
    /\ Did(PopFirst(list))

DoPopLast ==
    /\ ~panicked
    /\ Did(PopLast(list))

DoClear ==
    /\ ~panicked
    /\ Did(Clear(list))

DoScrollUp ==
    /\ ~panicked
    /\ \E k \in 0..MaxScroll : Did(ScrollUp(list, k).l)

DoScrollDown ==
    /\ ~panicked
    /\ \E k \in 0..MaxScroll : Did(ScrollDown(list, k).l)

DoScrollToBottom ==
    /\ ~panicked
    /\ \E h \in 1..MaxHeight :
          IF ScrollToBottomPanics(list)
          THEN /\ panicked' = TRUE
               /\ UNCHANGED <<list, scanVars, coVars>>
          ELSE Did(ScrollToBottom(list, h))

Next ==
    \/ DoAppend
    \/ DoPrepend
    \/ DoPopFirst
    \/ DoPopLast
    \/ DoClear
    \/ DoScrollUp
    \/ DoScrollDown
    \/ DoScrollToBottom

\* ------------------------------------------------------------------ bytes
NL == 10
Alphabet == {NL, 97, 98}

\* a nil []byte, as opposed to an empty one
NilBytes == <<0 - 1>>
LenB(b) == IF b = NilBytes THEN 0 ELSE Len(b)

SeqsUpTo(S, n) == UNION {[1..k -> S] : k \in 0..n}

\* b[lo:hi] of Go
Slice(b, lo, hi) == SubSeq(b, lo + 1, hi)

\* bytes.LastIndexByte and bytes.IndexByte: 0-based, -1 when absent
LastIndexByte(b, c) ==
    LET I == {i \in 1..Len(b) : b[i] = c}
    IN IF I = {} THEN 0 - 1 ELSE (CHOOSE i \in I : \A j \in I : j <= i) - 1

IndexByte(b, c) ==
    LET I == {i \in 1..Len(b) : b[i] = c}
    IN IF I = {} THEN 0 - 1 ELSE (CHOOSE i \in I : \A j \in I : i <= j) - 1

Zeros(n) == [i \in 1..n |-> 0]

\* ----------------------------------------------------------- file handle
SeekStart == 0
SeekEnd   == 2

\* os.File.Seek: the resulting absolute position
Seek(offset, whence) == IF whence = SeekStart THEN offset ELSE Len(file) + offset

\* os.File.Read into a buffer of k bytes at seek position pos: at most
\* maxRead bytes at once, (0, io.EOF) at or past the end of the file.
Read(pos, k) ==
    IF k = 0 THEN [n |-> 0, data |-> <<>>, err |-> "nil"]
    ELSE IF pos >= Len(file) THEN [n |-> 0, data |-> <<>>, err |-> "EOF"]
    ELSE LET n == Min(Min(k, Len(file) - pos), maxRead)
         IN [n |-> n, data |-> SubSeq(file, pos + 1, pos + n), err |-> "nil"]

\* ------------------------------------------------------ ReadBackwardsFrom
\* data are the bytes stored at buf[0:N]; pos is the handle's position after.
\* the read done where the handle is, without the Seek to nextPos
ReadBackwardsFrom_NoSeek(pos, fromPos, requested) ==
    IF fromPos = 0 \/ requested = 0
    THEN [N |-> 0, NextPos |-> fromPos, Seeked |-> FALSE, LeftToRead |-> 0 - 1,
          err |-> "nil", data |-> <<>>, pos |-> pos]
    ELSE
      LET leftToRead == IF fromPos < requested THEN fromPos ELSE requested
          nextPos    == fromPos - leftToRead
          r          == Read(pos, leftToRead)
      IN [N |-> r.n, NextPos |-> nextPos, Seeked |-> TRUE,
          LeftToRead |-> leftToRead - r.n,
          err |-> r.err, data |-> r.data, pos |-> pos + r.n]

ReadBackwardsFrom(pos, fromPos, requested) ==
    IF fromPos = 0 \/ requested = 0
    THEN [N |-> 0, NextPos |-> fromPos, Seeked |-> FALSE, LeftToRead |-> 0 - 1,
          err |-> "nil", data |-> <<>>, pos |-> pos]
    ELSE
      LET leftToRead == IF fromPos < requested THEN fromPos ELSE requested
          nextPos    == fromPos - leftToRead
          r          == Read(Seek(nextPos, SeekStart), leftToRead)
      IN [N |-> r.n, NextPos |-> nextPos, Seeked |-> TRUE,
          LeftToRead |-> leftToRead - r.n,
          err |-> r.err, data |-> r.data, pos |-> nextPos + r.n]

\* --------------------------------------------------- BackwardsLineScanner
ErrUseAfterClose == "ErrUseAfterClose"
maxEmptyReads == 10

NewBackwardsLineScanner(chunkSize, seek, whence) ==
    [ nextPos     |-> Seek(seek, whence),
      chunkSize   |-> chunkSize,
      chunks      |-> <<>>,
      nextNewLine |-> 0 - 1,
      lastErr     |-> "nil" ]

\* Close that drops the chunks and leaves lastErr as it is
Close_KeepErr(s) == [s EXCEPT !.chunks = <<>>]

Close(s) == [s EXCEPT !.chunks = <<>>, !.lastErr = ErrUseAfterClose]

\* The retry loop of readMore, entered with leftToRead > 0.
RECURSIVE readMoreLoop(_, _, _, _, _)
readMoreLoop(pos, data, n, leftToRead, emptyReads) ==
    LET r     == Read(pos, leftToRead)
        n1    == n + r.n
        left1 == leftToRead - r.n
        data1 == data \o r.data
        pos1  == pos + r.n
        out(e) == [n |-> n1, leftToRead |-> left1, err |-> e,
                   data |-> data1, pos |-> pos1]
    IN IF r.err # "nil" THEN out(r.err)
       ELSE IF left1 < 0 THEN out("ErrShortBuffer")
       ELSE IF r.n = 0 /\ emptyReads + 1 >= maxEmptyReads THEN out("ErrNoProgress")
       ELSE IF left1 > 0
            THEN readMoreLoop(pos1, data1, n1, left1,
                              IF r.n = 0 THEN emptyReads + 1 ELSE 0)
            ELSE out("nil")

\* fmt.Errorf("expected to read %d bytes, but only read %d: %w", ...): the
\* error of the loop wrapped, which errors.Is still finds
ShortRead(err) == IF err = "ErrNoProgress" THEN "short read: ErrNoProgress"
                  ELSE "short read"

\* the chunk counted as the start of the file before the short read is looked at
readMore_StartFirst(s, pos) ==
    IF s.lastErr # "nil"
    THEN [s |-> s, pos |-> pos, n |-> 0, err |-> s.lastErr]
    ELSE
      LET Retry(result) ==
              IF result.LeftToRead > 0
              THEN readMoreLoop(result.pos, result.data, result.N,
                                result.LeftToRead, 0)
              ELSE [n |-> result.N, leftToRead |-> result.LeftToRead,
                    err |-> result.err, data |-> result.data,
                    pos |-> result.pos]
          Store(result, rest) ==
              LET chunk == [buf |-> rest.data \o Zeros(s.chunkSize - rest.n),
                            len |-> rest.n]
              IN [s   |-> [s EXCEPT !.nextPos = result.NextPos,
                                    !.chunks = Append(@, chunk)],
                  pos |-> rest.pos,
                  n   |-> rest.n,
                  err |-> IF result.NextPos = 0 THEN "EOF"
                          ELSE IF rest.err = "EOF" THEN "ErrUnexpectedEOF"
                          ELSE IF rest.leftToRead > 0 THEN ShortRead(rest.err)
                          ELSE rest.err]
          Backwards(result) == Store(result, Retry(result))
      IN Backwards(ReadBackwardsFrom(pos, s.nextPos, s.chunkSize))

readMore(s, pos) ==
    IF s.lastErr # "nil"
    THEN [s |-> s, pos |-> pos, n |-> 0, err |-> s.lastErr]
    ELSE
      LET Retry(result) ==
              IF result.LeftToRead > 0
              THEN readMoreLoop(result.pos, result.data, result.N,
                                result.LeftToRead, 0)
              ELSE [n |-> result.N, leftToRead |-> result.LeftToRead,
                    err |-> result.err, data |-> result.data,
                    pos |-> result.pos]
          Store(result, rest) ==
              LET chunk == [buf |-> rest.data \o Zeros(s.chunkSize - rest.n),
                            len |-> rest.n]
              IN [s   |-> [s EXCEPT !.nextPos = result.NextPos,
                                    !.chunks = Append(@, chunk)],
                  pos |-> rest.pos,
                  n   |-> rest.n,
                  err |-> IF rest.err = "EOF" THEN "ErrUnexpectedEOF"
                          ELSE IF result.NextPos = 0 THEN "EOF"
                          ELSE IF rest.leftToRead > 0 THEN ShortRead(rest.err)
                          ELSE rest.err]
          Backwards(result) == Store(result, Retry(result))
      IN Backwards(ReadBackwardsFrom(pos, s.nextPos, s.chunkSize))

\* chunks concatenated in load order instead of file order
RECURSIVE OlderChunks_LoadOrder(_, _)
OlderChunks_LoadOrder(chunks, i) ==
    IF i < 1 THEN <<>>
    ELSE OlderChunks_LoadOrder(chunks, i - 1) \o Slice(chunks[i].buf, 0, chunks[i].len)

\* chunks[i].buf[:len] for i = numChunks-2 down to 0, concatenated
RECURSIVE OlderChunks(_, _)
OlderChunks(chunks, i) ==
    IF i < 1 THEN <<>>
    ELSE Slice(chunks[i].buf, 0, chunks[i].len) \o OlderChunks(chunks, i - 1)

\* the offset of the newline itself instead of the byte after it
LineStartedAt_OnNewline(nextPos, nlIdx) == nextPos + nlIdx

LineStartedAt(nextPos, nlIdx) == nextPos + nlIdx + 1

\* io.EOF returned with every line, also with one that starts after offset 0
LineErr_KeepEOF(nlIdx, err) == err

\* "Do not return EOF if we still have data to read."
LineErr(nlIdx, err) == IF nlIdx # 0 - 1 /\ err = "EOF" THEN "nil" ELSE err

RECURSIVE ReadLine(_, _)
ReadLine(s, pos) ==
    IF s.lastErr = ErrUseAfterClose
    THEN [s |-> s, pos |-> pos, line |-> NilBytes, start |-> 0 - 1, err |-> s.lastErr]
    ELSE
      LET \* the line ending the current chunk at the newline nlIdx, or the
          \* whole of the remaining chunks at the start of the file
          Emit(s1, p, err, curChunk, nlIdx) ==
              LET remainingChunk ==
                      IF nlIdx > 0
                      THEN [buf |-> Slice(curChunk.buf, 0, nlIdx), len |-> nlIdx]
                      ELSE [buf |-> <<>>, len |-> 0]
              IN [s |-> IF nlIdx # 0 - 1
                        THEN [s1 EXCEPT
                                !.chunks = <<remainingChunk>>,
                                !.nextNewLine = LastIndexByte(remainingChunk.buf, NL)]
                        ELSE [s1 EXCEPT !.chunks = <<>>, !.nextNewLine = 0 - 1],
                  pos   |-> p,
                  line  |-> Slice(curChunk.buf, nlIdx + 1, curChunk.len)
                            \o OlderChunks(s1.chunks, Len(s1.chunks) - 1),
                  start |-> LineStartedAt(s1.nextPos, nlIdx),
                  err   |-> LineErr(nlIdx, err)]
          Split(s1, p, err, curChunk, nlIdx) ==
              IF nlIdx # 0 - 1 \/ err = "EOF"
              THEN Emit(s1, p, err, curChunk, nlIdx)
              ELSE ReadLine(s1, p)
          Search(s1, p, err) ==
              IF Len(s1.chunks) = 0
              THEN [s |-> s1, pos |-> p, line |-> <<>>, start |-> 0, err |-> "EOF"]
              ELSE Split(s1, p, err, s1.chunks[Len(s1.chunks)],
                         IF s1.nextNewLine = 0 - 1
                         THEN LastIndexByte(s1.chunks[Len(s1.chunks)].buf, NL)
                         ELSE s1.nextNewLine)
          After(rm) ==
              IF rm.err # "nil" /\ rm.err # "EOF"
              THEN [s |-> [rm.s EXCEPT !.lastErr = rm.err], pos |-> rm.pos,
                    line |-> NilBytes, start |-> 0 - 1, err |-> rm.err]
              ELSE Search(IF rm.err # "nil" THEN [rm.s EXCEPT !.lastErr = rm.err]
                          ELSE rm.s,
                          rm.pos, rm.err)
      IN After(IF s.nextNewLine = 0 - 1 THEN readMore(s, pos)
               ELSE [s |-> s, pos |-> pos, n |-> 0, err |-> "nil"])

\* ---------------------------------------------------- ForwardsLineScanner
\* bufio.ScanLines as it is in the library: the token without its newline
scanLines_DropNewline(data, atEOF) ==
    IF atEOF /\ Len(data) = 0 THEN [advance |-> 0, token |-> NilBytes]
    ELSE
      LET i == IndexByte(data, NL) IN
      IF i >= 0 THEN [advance |-> i + 1, token |-> Slice(data, 0, i)]
      ELSE IF atEOF THEN [advance |-> Len(data), token |-> data]
      ELSE [advance |-> 0, token |-> NilBytes]

\* scanLines, the split function: token NilBytes asks for more data
scanLines(data, atEOF) ==
    IF atEOF /\ Len(data) = 0 THEN [advance |-> 0, token |-> NilBytes]
    ELSE
      LET i == IndexByte(data, NL) IN
      IF i >= 0 THEN [advance |-> i + 1, token |-> Slice(data, 0, i + 1)]
      ELSE IF atEOF THEN [advance |-> Len(data), token |-> data]
      ELSE [advance |-> 0, token |-> NilBytes]

\* Read on the forwards scanner's reader: a hard error once the device fails
ReadFwd(pos, k) ==
    IF fwdBroken THEN [n |-> 0, data |-> <<>>, err |-> "EIO"] ELSE Read(pos, k)

\* bufio.NewScanner: buf is the unconsumed input s.buf[s.start:s.end]
NewScanner == [buf |-> <<>>, err |-> "nil", token |-> NilBytes]

\* bufio.Scanner.Scan with scanLines as the split function.  The scanner's
\* buffer grows as needed and is larger than every file explored here, so a
\* Read is limited by the file handle only.
RECURSIVE BufioScan(_, _)
BufioScan(sc, pos) ==
    LET trySplit == Len(sc.buf) > 0 \/ sc.err # "nil"
        \* the loop again with what the Read r gave
        ReadMore(sc1, r) ==
            CHOOSE b \in {BufioScan(sc2, pos2) :
                             sc2 \in {[sc1 EXCEPT !.buf = @ \o r.data,
                                                  !.err = r.err]},
                             pos2 \in {pos + r.n}} : TRUE
        Split(sp, sc1) ==
            IF trySplit /\ sp.token # NilBytes
            THEN [sc |-> sc1, pos |-> pos, res |-> TRUE]
            ELSE IF sc1.err # "nil"
            THEN [sc |-> [sc1 EXCEPT !.buf = <<>>], pos |-> pos, res |-> FALSE]
            ELSE CHOOSE b \in {ReadMore(sc1, r) :
                                  r \in {ReadFwd(pos, Len(file) + 1)}} : TRUE
        Advanced(sp) ==
            IF trySplit
            THEN [sc EXCEPT !.buf = SubSeq(@, sp.advance + 1, Len(@)),
                            !.token = sp.token]
            ELSE sc
    \* sp, sc1 and r are bound by a set so that each is computed once
    IN CHOOSE b \in {Split(sp, sc1) :
                        sp \in {scanLines(sc.buf, sc.err # "nil")},
                        sc1 \in {Advanced(scanLines(sc.buf, sc.err # "nil"))}} : TRUE

\* bufio.Scanner.Err: io.EOF is not an error
ScannerErr(sc) == IF sc.err = "EOF" THEN "nil" ELSE sc.err

NewForwardsLineScanner ==
    [ token |-> <<>>, isCarryOver |-> FALSE, sc |-> NewScanner ]

\* the token reset without looking at isCarryOver
ResetToken_Always(s) == NilBytes

\* "Make sure to reset our token if we're not carrying over."
ResetToken(s) == IF ~s.isCarryOver THEN NilBytes ELSE s.token

Scan(s, pos) ==
    LET Scanned(b, s1) ==
            IF ~b.res /\ ScannerErr(b.sc) = "nil"
            THEN [s |-> [s1 EXCEPT !.sc = NewScanner], pos |-> b.pos, res |-> FALSE]
            ELSE IF LenB(b.sc.token) # 0
            THEN
              LET bytes == b.sc.token
                  token == IF s1.isCarryOver /\ s1.token # NilBytes
                           THEN s1.token \o bytes ELSE bytes IN
              IF bytes[Len(bytes)] # NL
              THEN [s |-> [s1 EXCEPT !.token = token, !.isCarryOver = TRUE,
                                     !.sc = NewScanner],
                    pos |-> b.pos, res |-> FALSE]
              ELSE [s |-> [s1 EXCEPT !.token = Slice(token, 0, Len(token) - 1),
                                     !.isCarryOver = FALSE],
                    pos |-> b.pos, res |-> TRUE]
            ELSE [s |-> s1, pos |-> b.pos, res |-> TRUE]
        Inner(b) == Scanned(b, [s EXCEPT !.sc = b.sc, !.token = ResetToken(s)])
    IN CHOOSE r \in {Inner(b) : b \in {BufioScan(s.sc, pos)}} : TRUE

Bytes(s) == IF s.isCarryOver THEN NilBytes ELSE s.token

Err(s) == ScannerErr(s.sc)

\* ----------------------------------------------------------- seekAndOrient
\* the chunk size seekAndOrient gives the backwards scanner
orientChunkSize == 1024

\* the forwards handle left at the requested position instead of the start
\* of the line
seekAndOrient_SeekToPos(sc, chunkSize, pos, whence) ==
    LET Oriented(r) ==
            IF r.err # "nil" /\ r.err # "EOF"
            THEN [sc |-> [sc EXCEPT !.bls = Close(sc.bls), !.brd = r.pos],
                  err |-> r.err, first |-> [line |-> r.line, start |-> r.start,
                                            err |-> r.err]]
            ELSE [sc |-> [bls |-> r.s, brd |-> r.pos,
                          fls |-> NewForwardsLineScanner, frd |-> Seek(pos, whence)],
                  err |-> "nil", first |-> [line |-> r.line, start |-> r.start,
                                            err |-> r.err]]
    IN IF Seek(pos, whence) < 0
       THEN [sc |-> [sc EXCEPT !.bls = Close(sc.bls)], err |-> "EINVAL",
             first |-> [line |-> NilBytes, start |-> 0 - 1, err |-> "EINVAL"]]
       ELSE Oriented(ReadLine(NewBackwardsLineScanner(chunkSize, pos, whence),
                              Seek(pos, whence)))

\* sc holds the scanners of the Buffer and the positions of their handles.
\* The old backwards scanner is closed; a new one is opened at the position
\* asked for; its first ReadLine, whose line is dropped, gives the start P of
\* the line around that position; the forwards handle is moved to P and gets
\* a new forwards scanner.  The code passes orientChunkSize as chunkSize.
\* The forwards scanner's token limit of 1 MiB is above every line here.
\* first is the result of the ReadLine call.
seekAndOrient(sc, chunkSize, pos, whence) ==
    LET Oriented(r) ==
            IF r.err # "nil" /\ r.err # "EOF"
            THEN [sc |-> [sc EXCEPT !.bls = Close(sc.bls), !.brd = r.pos],
                  err |-> r.err, first |-> [line |-> r.line, start |-> r.start,
                                            err |-> r.err]]
            ELSE [sc |-> [bls |-> r.s, brd |-> r.pos,
                          fls |-> NewForwardsLineScanner, frd |-> r.start],
                  err |-> "nil", first |-> [line |-> r.line, start |-> r.start,
                                            err |-> r.err]]
    IN IF Seek(pos, whence) < 0
       THEN [sc |-> [sc EXCEPT !.bls = Close(sc.bls)], err |-> "EINVAL",
             first |-> [line |-> NilBytes, start |-> 0 - 1, err |-> "EINVAL"]]
       ELSE Oriented(ReadLine(NewBackwardsLineScanner(chunkSize, pos, whence),
                              Seek(pos, whence)))

\* ----------------------------------------------------------------- Buffer
RECURSIVE JoinLog(_)
JoinLog(q) == IF q = <<>> THEN <<>> ELSE Head(q) \o <<NL>> \o JoinLog(Tail(q))

\* WordWrap for text of single-cell characters without break opportunities,
\* which is what the alphabet has: a split after every width characters.
RECURSIVE WordWrap(_, _)
WordWrap(text, width) ==
    IF width <= 0 THEN <<>>
    ELSE IF Len(text) <= width THEN <<text>>
    ELSE <<SubSeq(text, 1, width)>> \o WordWrap(SubSeq(text, width + 1, Len(text)), width)

\* the record as the list sees it: its display lines
newRecord(byteOffset, buf, wrapWidth) == WordWrap(buf, wrapWidth)

\* parseLine decodes the line as JSON and runs the jq filter over it; nil is
\* a line the filter drops.  Here the projection of c either keeps every
\* line as it is, or drops the empty lines and the lines that begin with 'b'.
\* A record has a display line at least, so no lines at all stand for nil.
NilRecord == <<>>
parseLine(c, pos, line) ==
    IF c.keepAll \/ (LenB(line) > 0 /\ line[1] # 98)
    THEN newRecord(pos, IF line = NilBytes THEN <<>> ELSE line, c.width)
    ELSE NilRecord

\* the lines to read backwards from the eagerness alone
calcLinesToReadUsingAvailableLines_EagerOnly(c, aboveScreen, onScreen, belowScreen) ==
    [ bkdLines |-> Max(c.bkdEager - aboveScreen, 0),
      fwdLines |-> IF c.followMode THEN 0
                   ELSE c.height - onScreen + Max(c.fwdEager - belowScreen, 0) ]

calcLinesToReadUsingAvailableLines(c, aboveScreen, onScreen, belowScreen) ==
    [ bkdLines |-> Max(c.bkdEager - aboveScreen, c.height - onScreen),
      fwdLines |-> IF c.followMode THEN 0
                   ELSE c.height - onScreen + Max(c.fwdEager - belowScreen, 0) ]

calcLinesToReadUsingRecords(c, records) ==
    calcLinesToReadUsingAvailableLines(c,
        CalcScreenLines(records, c.height).aboveScreen,
        CalcScreenLines(records, c.height).onScreen,
        CalcScreenLines(records, c.height).belowScreen)

\* the fields NewBuffer sets from its arguments
NewBuffer(width, height, followMode, keepAll) ==
    [ width |-> width, height |-> height, followMode |-> followMode,
      bkdEager |-> height * 2, fwdEager |-> height * 2, keepAll |-> keepAll,
      ctxDone |-> FALSE ]    \* ctx: whether the context given to NewBuffer is done

Threads == {1, 2}

\* the files the Buffer reads: up to MaxLog lines out of "", "a" and "ba",
\* and after them nothing or an "a" without its newline
LogLines == {<<>>, <<97>>, <<98, 97>>}
BufFiles ==
    {JoinLog(q) : q \in SeqsUpTo(LogLines, MaxLog)}
        \cup {JoinLog(q) \o <<97>> : q \in SeqsUpTo(LogLines, MaxLog - 1)}
Pairs == 1..MaxPairs

\* a producer goroutine that has returned
Exited == [ pc |-> "done", stale |-> FALSE, left |-> 0,
              line |-> <<0 - 1>>, pos |-> 0 - 1, eof |-> FALSE ]

\* A producer goroutine: where it is, whether the continue channel it holds
\* has been closed by a replacement, how many more lines it is to read
\* (myToRead - i), and the line it is about to insert.
NoProducer ==
    [ pc |-> "none", stale |-> FALSE, left |-> 0,
      line |-> NilBytes, pos |-> 0 - 1, eof |-> FALSE ]

\* The variables of one setupAsyncReads call and its goroutines.
NoPair ==
    [ created       |-> FALSE,
      cancelled     |-> FALSE,   \* innerCtx.Err() != nil
      continueDone  |-> FALSE,
      closerPending |-> FALSE,   \* a goroutine of cancelPopulate is to run
      calcPending   |-> FALSE,   \* a goroutine of continueAsyncReads is to run
      signalPending |-> FALSE,   \* ... and has still to close continueCh
      bkdToRead     |-> 0,
      fwdToRead     |-> 0,
      bkdReaderDone |-> FALSE,
      fwdReaderDone |-> FALSE,
      doneWaits     |-> FALSE,   \* the done goroutine is at <-continueCh
      doneStale     |-> FALSE,   \* ... on a channel closed by a replacement
      doneCh        |-> FALSE,   \* doneCh is closed
      bkd           |-> NoProducer,
      fwd           |-> NoProducer ]

\* a pair whose doneCh is closed
Closed ==
    [NoPair EXCEPT !.created = TRUE, !.bkdReaderDone = TRUE, !.fwdReaderDone = TRUE,
                   !.doneWaits = TRUE, !.doneCh = TRUE, !.bkd = Exited, !.fwd = Exited]

NoThread == [pc |-> "idle", old |-> 0, pair |-> 0, err |-> "nil"]

CoIdleWith(c) ==
    /\ cfg = c
    /\ mu = 0
    /\ muCancel = 0
    /\ cancelPair = 0
    /\ cont = 0
    /\ pairs = [p \in Pairs |-> NoPair]
    /\ thr = [t \in Threads |-> NoThread]
    /\ listMu = <<>>
    /\ shadow = NewBufferRecordList
    /\ offs = <<>>

CoIdle == CoIdleWith(NewBuffer(1, 1, FALSE, TRUE))

\* ------------------------------------------------- ReadBackwardsFrom calls
\* no call made yet
NoRead ==
    [calls |-> 0, from |-> 0, fromPos |-> 0, pre |-> <<>>, buf |-> <<>>,
     posBefore |-> 0, posAfter |-> 0, whole |-> TRUE, got |-> <<>>,
     res |-> [N |-> 0, NextPos |-> 0, Seeked |-> FALSE, LeftToRead |-> 0, err |-> "nil"]]

\* the buffer after the call: Read fills buf[:n] and leaves the rest
Filled(buf, data) == data \o SubSeq(buf, Len(data) + 1, Len(buf))

\* ReadBackwardsFrom(reader, fromPos, buf) on a reader at pos; first says
\* whether the call opens a chain or goes on from the NextPos of the last
Called(first, pos, fromPos, buf, r) ==
    [calls     |-> IF first THEN 1 ELSE rcall.calls + 1,
     from      |-> IF first THEN fromPos ELSE rcall.from,
     fromPos   |-> fromPos,
     pre       |-> buf,
     buf       |-> Filled(buf, r.data),
     posBefore |-> pos,
     posAfter  |-> r.pos,
     whole     |-> (first \/ rcall.whole) /\ r.LeftToRead <= 0,
     got       |-> r.data \o (IF first THEN <<>> ELSE rcall.got),
     res       |-> [N |-> r.N, NextPos |-> r.NextPos, Seeked |-> r.Seeked,
                    LeftToRead |-> r.LeftToRead, err |-> r.err]]

\* a first call at any position, on a handle left at either end of the file
DoReadBackwards ==
    /\ rcall.calls = 0
    /\ \E fromPos \in 0..(Len(file) + MaxPastEOF) :
       \E pos \in {0, Len(file)} :
       \E b \in 0..MaxChunk :
          rcall' = Called(TRUE, pos, fromPos, [i \in 1..b |-> 0],
                          ReadBackwardsFrom(pos, fromPos, b))
    /\ UNCHANGED <<listVars, file, maxRead, backVars, fwdVars, fwdBroken, coVars>>

\* the next call of the chain: ReadBackwardsFrom(reader, result.NextPos, buf2)
DoReadBackwardsOn ==
    /\ rcall.calls \in 1..MaxFile
    /\ rcall.res.err = "nil"
    /\ \E b \in 0..MaxChunk :
          rcall' = Called(FALSE, rcall.posAfter, rcall.res.NextPos, [i \in 1..b |-> 0],
                          ReadBackwardsFrom(rcall.posAfter, rcall.res.NextPos, b))
    /\ UNCHANGED <<listVars, file, maxRead, backVars, fwdVars, fwdBroken, coVars>>

ReadNext ==
    \/ DoReadBackwards
    \/ DoReadBackwardsOn

\* ---------------------------------------------------------- scanner actions
NoScan == [res |-> FALSE, bytes |-> NilBytes, err |-> "nil", size |-> 0 - 1,
           carried |-> FALSE, failed |-> FALSE]

ListIdle ==
    /\ list = NewBufferRecordList
    /\ panicked = FALSE
    /\ CoIdle

ScannersIdle ==
    /\ file = <<>>
    /\ maxRead = 1
    /\ bls = NewBackwardsLineScanner(1, 0, SeekStart)
    /\ brd = 0
    /\ bout = <<>>
    /\ startPos = 0
    /\ fls = NewForwardsLineScanner
    /\ frd = 0
    /\ fout = <<>>
    /\ fcall = NoScan
    /\ fwdBroken = FALSE
    /\ rcall = NoRead

\* A stable file and a reader of it; the scanners are not used.
ReadInit ==
    /\ ListIdle
    /\ file \in SeqsUpTo(Alphabet, MaxFile)
    /\ maxRead \in 1..MaxRead
    /\ bls = NewBackwardsLineScanner(1, 0, SeekStart)
    /\ brd = 0
    /\ bout = <<>>
    /\ startPos = 0
    /\ fls = NewForwardsLineScanner
    /\ frd = 0
    /\ fout = <<>>
    /\ fcall = NoScan
    /\ fwdBroken = FALSE
    /\ rcall = NoRead

\* A stable file, a backwards scanner opened at any position of it and a
\* forwards scanner opened at its start, each on a handle of its own.
BackInit ==
    /\ ListIdle
    /\ file \in SeqsUpTo(Alphabet, MaxFile)
    /\ maxRead \in 1..MaxRead
    /\ \E chunkSize \in 1..MaxChunk :
       \E sw \in ({<<0, SeekEnd>>} \cup {<<p, SeekStart>> : p \in 0..Len(file)}) :
          /\ bls = NewBackwardsLineScanner(chunkSize, sw[1], sw[2])
          /\ brd = Seek(sw[1], sw[2])
          /\ startPos = Seek(sw[1], sw[2])
    /\ bout = <<>>
    /\ fls = NewForwardsLineScanner
    /\ frd = 0
    /\ fout = <<>>
    /\ fcall = NoScan
    /\ fwdBroken = FALSE
    /\ rcall = NoRead

\* the scanners of a Buffer that has not been oriented yet; the closed
\* scanner stands for the nil bkdScanner
NoScanners ==
    [bls |-> Close(NewBackwardsLineScanner(orientChunkSize, 0, SeekStart)),
     brd |-> 0, fls |-> NewForwardsLineScanner, frd |-> 0]

\* A stable file and a Buffer that has not been oriented yet.
OrientInit ==
    /\ ListIdle
    /\ file \in SeqsUpTo(Alphabet, MaxFile)
    /\ maxRead \in 1..MaxRead
    /\ bls = NoScanners.bls
    /\ brd = NoScanners.brd
    /\ fls = NoScanners.fls
    /\ frd = NoScanners.frd
    /\ bout = <<>>
    /\ startPos = 0
    /\ fout = <<>>
    /\ fcall = NoScan
    /\ fwdBroken = FALSE
    /\ rcall = NoRead

\* seekAndOrient at any position of the file.  The chunk sizes below
\* orientChunkSize make lines cross chunk boundaries.  bout starts again
\* with the result of the ReadLine call of the orientation.  What the call
\* leaves behind does not depend on the scanners it replaces, so one
\* orientation per behaviour is explored.
DoOrient ==
    /\ bout = <<>>
    /\ \E chunkSize \in (1..MaxChunk) \cup {orientChunkSize} :
       \E sw \in ({<<0, SeekEnd>>} \cup {<<p, SeekStart>> : p \in 0..Len(file)}) :
       \E o \in {seekAndOrient([bls |-> bls, brd |-> brd, fls |-> fls, frd |-> frd],
                               chunkSize, sw[1], sw[2])} :
          /\ bls' = o.sc.bls
          /\ brd' = o.sc.brd
          /\ fls' = o.sc.fls
          /\ frd' = o.sc.frd
          /\ bout' = <<o.first>>
          /\ startPos' = Seek(sw[1], sw[2])
    /\ fout' = <<>>
    /\ fcall' = NoScan
    /\ UNCHANGED <<listVars, file, maxRead, fwdBroken, rcall, coVars>>

EOFsSeen == Cardinality({i \in 1..Len(bout) : bout[i].err = "EOF"})

DoReadLine ==
    /\ EOFsSeen <= MaxPastEOF
    /\ LET Returned(r) ==
               /\ bls' = r.s
               /\ brd' = r.pos
               /\ bout' = Append(bout, [line |-> r.line, start |-> r.start,
                                        err |-> r.err])
       IN Returned(ReadLine(bls, brd))
    /\ UNCHANGED <<listVars, file, maxRead, startPos, fwdVars, fwdBroken, rcall, coVars>>

\* the mark of a Close call in the list of what the calls returned
CloseCall == [line |-> NilBytes, start |-> 0 - 1, err |-> "Close"]
ClosesSeen == Cardinality({i \in 1..Len(bout) : bout[i] = CloseCall})
ReadsAfterClose ==
    Cardinality({i \in 1..Len(bout) :
                    bout[i] # CloseCall /\ \E j \in 1..(i - 1) : bout[j] = CloseCall})

\* BackwardsLineScanner.Close()
DoClose ==
    /\ ClosesSeen <= MaxPastEOF
    /\ bls' = Close(bls)
    /\ bout' = Append(bout, CloseCall)
    /\ UNCHANGED <<listVars, file, maxRead, brd, startPos, fwdVars, fwdBroken, rcall,
                   coVars>>

\* ReadLine of a scanner that may have been closed
DoReadLineClosed ==
    /\ ReadsAfterClose <= MaxPastEOF
    /\ DoReadLine

CloseNext ==
    \/ DoReadLineClosed
    \/ DoClose

\* The guard stops the exploration of a scanner that reports lines for ever.
DoScan ==
    /\ Len(fout) <= MaxStream
    /\ LET Returned(r, b) ==
               /\ fls' = r.s
               /\ frd' = r.pos
               /\ fout' = IF r.res THEN Append(fout, Bytes(r.s)) ELSE fout
               /\ fcall' = [res |-> r.res, bytes |-> Bytes(r.s), err |-> Err(r.s),
                            size |-> Len(file), carried |-> fls.isCarryOver,
                            failed |-> fcall.failed \/ b.sc.err = "EIO"]
       IN Returned(Scan(fls, frd), BufioScan(fls.sc, frd))
    /\ UNCHANGED <<listVars, file, maxRead, backVars, fwdBroken, rcall, coVars>>

BackNext ==
    \/ DoReadLine
    \/ DoScan

OrientedReadLine == bout # <<>> /\ DoReadLine
OrientedScan == bout # <<>> /\ DoScan

OrientNext ==
    \/ DoOrient
    \/ OrientedReadLine
    \/ OrientedScan

\* A file that grows by appends, read by a forwards scanner from its start.
FwdInit ==
    /\ ListIdle
    /\ file = <<>>
    /\ maxRead \in 1..MaxRead
    /\ bls = NewBackwardsLineScanner(1, 0, SeekStart)
    /\ brd = 0
    /\ bout = <<>>
    /\ startPos = 0
    /\ fls = NewForwardsLineScanner
    /\ frd = 0
    /\ fout = <<>>
    /\ fcall = NoScan
    /\ fwdBroken = FALSE
    /\ rcall = NoRead

DoFileAppend ==
    /\ \E data \in SeqsUpTo(Alphabet, MaxAppend) :
          /\ data # <<>>
          /\ Len(file) + Len(data) <= MaxStream
          /\ file' = file \o data
    /\ UNCHANGED <<listVars, maxRead, backVars, fwdVars, fwdBroken, rcall, coVars>>

FwdNext ==
    \/ DoFileAppend
    \/ DoScan

\* The device under the forwards scanner's handle starts to fail.
DoBreak ==
    /\ ~fwdBroken
    /\ fwdBroken' = TRUE
    /\ UNCHANGED <<listVars, file, maxRead, rcall, backVars, fwdVars, coVars>>

FwdErrNext ==
    \/ DoFileAppend
    \/ DoScan
    \/ DoBreak

\* ------------------------------------------------------- Buffer: the calls
\* a mutex nobody minds
MuFree_Always(m) == TRUE

\* l.mu.Lock() of a list method called from outside WithLock gets through
MuFree(m) == m = <<>>

\* innerCancel alone: nobody closes continueCh
cancelPopulate_NoClose(ps, p) ==
    IF p = 0 THEN ps ELSE [ps EXCEPT ![p].cancelled = TRUE]

\* innerCancel and the goroutine cancelPopulate starts; pair 0 is the closed
\* channel of NewBuffer.  Once doneCh is closed every goroutine of the pair
\* but those of cancelPopulate and continueAsyncReads has returned, and those
\* find nobody to release: they are left out.
cancelPopulate(ps, p) ==
    IF p = 0 THEN ps
    ELSE IF ps[p].doneCh THEN [ps EXCEPT ![p].cancelled = TRUE]
    ELSE [ps EXCEPT ![p].cancelled = TRUE, ![p].closerPending = TRUE]


\* a receive that does not wait for the close
Awaited_Always(p) == TRUE

\* the channel cancelPopulate returns is closed
Awaited(p) == IF p = 0 THEN TRUE ELSE pairs[p].doneCh

\* b.continueAsyncReads(): the goroutine of the pair whose closure is installed
continueAsyncReads(ps, p) ==
    IF p = 0 THEN ps
    ELSE IF ps[p].doneCh THEN ps
    ELSE [ps EXCEPT ![p].calcPending = TRUE]

PairsStarted == Cardinality({p \in Pairs : pairs[p].created})
CallsInFlight == Cardinality({t \in Threads : thr[t].pc \in {"awaitOld", "setup"}})
NextPair == PairsStarted + 1

SeekPositions ==
    {<<0, SeekEnd>>} \cup {<<p, SeekStart>> : p \in (0 - 1)..(Len(file) + 1)}

\* SeekAndPopulate up to the wait for the old pair: b.mu.Lock() and the call
\* of b.cancelPopulate.  Nothing looks at pos and whence before seekAndOrient,
\* where they are drawn.
SeekAndPopulate(t) ==
    /\ ~panicked
    /\ thr[t].pc = "idle"
    /\ PairsStarted + CallsInFlight < MaxPairs
    /\ mu = 0
    /\ mu' = t
    /\ pairs' = cancelPopulate(pairs, cancelPair)
    /\ thr' = [thr EXCEPT ![t] = [pc |-> "awaitOld", old |-> cancelPair, pair |-> 0,
                                  err |-> "nil"]]
    /\ UNCHANGED <<listVars, scanVars, cfg, muCancel, cancelPair, cont, listMu,
                   shadow, offs>>

\* SeekAndPopulate from the end of the wait to b.mu.Unlock(): seekAndOrient
\* and, if that went well, b.records.Clear()
SeekOrientedAt(t, pos, whence) ==
    /\ ~panicked
    /\ thr[t].pc = "awaitOld"
    /\ Awaited(thr[t].old)
    /\ \E o \in {seekAndOrient([bls |-> bls, brd |-> brd, fls |-> fls, frd |-> frd],
                               orientChunkSize, pos, whence)} :
          /\ bls' = o.sc.bls
          /\ brd' = o.sc.brd
          /\ fls' = o.sc.fls
          /\ frd' = o.sc.frd
          /\ IF o.err # "nil"
             THEN /\ thr' = [thr EXCEPT ![t] = [NoThread EXCEPT !.err = o.err]]
                  /\ UNCHANGED <<list, offs, bout, fout, fcall, startPos>>
             ELSE /\ MuFree(listMu)
                  /\ thr' = [thr EXCEPT ![t] = [NoThread EXCEPT !.pc = "setup"]]
                  /\ list' = Clear(list)
                  /\ offs' = <<>>
                  /\ bout' = <<o.first>>
                  /\ fout' = <<>>
                  /\ fcall' = NoScan
                  /\ startPos' = Seek(pos, whence)
    /\ mu' = 0
    /\ UNCHANGED <<panicked, file, maxRead, fwdBroken, rcall, cfg, muCancel, cancelPair, cont,
                   pairs, listMu, shadow>>

SeekOriented(t) == \E sw \in SeekPositions : SeekOrientedAt(t, sw[1], sw[2])

\* setupAsyncReads up to the wait for the pair before: the lock, the
\* variables and the done goroutine of the new pair, the new b.cancelPopulate
\* and the call of the old one
setupAsyncReads(t) ==
    /\ ~panicked
    /\ thr[t].pc = "setup"
    /\ muCancel = 0
    /\ muCancel' = t
    /\ pairs' = cancelPopulate([pairs EXCEPT ![NextPair] =
                                   [NoPair EXCEPT !.created = TRUE,
                                                  !.cancelled = cfg.ctxDone]],
                                cancelPair)
    /\ cancelPair' = NextPair
    /\ thr' = [thr EXCEPT ![t].pc = "awaitPrev", ![t].old = cancelPair,
                          ![t].pair = NextPair]
    /\ UNCHANGED <<listVars, scanVars, cfg, mu, cont, listMu, shadow, offs>>

\* the end of that wait and the new b.continueAsyncReads
SetupAwaited(t) ==
    /\ ~panicked
    /\ thr[t].pc = "awaitPrev"
    /\ Awaited(thr[t].old)
    /\ cont' = thr[t].pair
    /\ thr' = [thr EXCEPT ![t].pc = "lockMu", ![t].old = 0]
    /\ UNCHANGED <<listVars, scanVars, cfg, mu, muCancel, cancelPair, pairs, listMu,
                   shadow, offs>>

\* setupAsyncReads from b.mu.Lock() to its return: the two reader channels
\* closed at once if the pair is cancelled already, the two producers started
\* otherwise
SetupStart(t) ==
    /\ ~panicked
    /\ thr[t].pc = "lockMu"
    /\ mu = 0
    /\ LET p == thr[t].pair IN
       IF pairs[p].cancelled
       THEN pairs' = [pairs EXCEPT ![p].bkdReaderDone = TRUE,
                                   ![p].fwdReaderDone = TRUE]
       ELSE /\ MuFree(listMu)
            /\ pairs' = [pairs EXCEPT
                 ![p].bkdToRead = calcLinesToReadUsingRecords(cfg, list).bkdLines,
                 ![p].fwdToRead = calcLinesToReadUsingRecords(cfg, list).fwdLines,
                 ![p].bkd = [NoProducer EXCEPT !.pc = "first"],
                 ![p].fwd = [NoProducer EXCEPT !.pc = "first"]]
    /\ muCancel' = 0
    /\ thr' = [thr EXCEPT ![t] = NoThread]
    /\ UNCHANGED <<listVars, scanVars, cfg, mu, cancelPair, cont, listMu, shadow, offs>>

\* ------------------------------------------------- Buffer: the goroutines
\* only the backwards producer awaited
ReadersDone_BkdOnly(p) == pairs[p].bkdReaderDone

\* <-bkdReaderDone; <-fwdReaderDone
ReadersDone(p) == pairs[p].bkdReaderDone /\ pairs[p].fwdReaderDone

\* the done goroutine gets to <-continueCh
DoneWaits(p) ==
    /\ pairs[p].created
    /\ ~pairs[p].doneWaits
    /\ ReadersDone(p)
    /\ pairs' = [pairs EXCEPT ![p].doneWaits = TRUE, ![p].doneStale = FALSE]
    /\ UNCHANGED <<listVars, scanVars, cfg, mu, muCancel, cancelPair, cont, thr,
                   listMu, shadow, offs>>

\* ... and past it: close(doneCh)
DoneCloses(p) ==
    /\ pairs[p].doneWaits
    /\ ~pairs[p].doneCh
    /\ pairs[p].doneStale \/ pairs[p].continueDone
    /\ pairs' = [pairs EXCEPT ![p] = [Closed EXCEPT !.cancelled = pairs[p].cancelled]]
    /\ UNCHANGED <<listVars, scanVars, cfg, mu, muCancel, cancelPair, cont, thr,
                   listMu, shadow, offs>>

\* the goroutine of cancelPopulate: close(continueCh) unless done before
CancelCloses(p) ==
    /\ pairs[p].closerPending
    /\ pairs' = [pairs EXCEPT ![p].closerPending = FALSE,
                              ![p].continueDone = TRUE]
    /\ UNCHANGED <<listVars, scanVars, cfg, mu, muCancel, cancelPair, cont, thr,
                   listMu, shadow, offs>>

\* the goroutine of continueAsyncReads under b.mu: the numbers of lines to
\* read, from the list as it is now
ContinueCalc(p) ==
    /\ ~panicked
    /\ pairs[p].calcPending
    /\ IF pairs[p].cancelled
       THEN pairs' = [pairs EXCEPT ![p].calcPending = FALSE]
       ELSE /\ mu = 0
            /\ MuFree(listMu)
            /\ pairs' = [pairs EXCEPT
                 ![p].calcPending = FALSE,
                 ![p].signalPending = TRUE,
                 ![p].bkdToRead = calcLinesToReadUsingRecords(cfg, list).bkdLines,
                 ![p].fwdToRead = calcLinesToReadUsingRecords(cfg, list).fwdLines]
    /\ UNCHANGED <<listVars, scanVars, cfg, mu, muCancel, cancelPair, cont, thr,
                   listMu, shadow, offs>>

\* only a producer that waits already is released
Holds_WaitOnly(pr) == pr.pc = "wait"

\* the producer holds a continue channel in myContinueCh
Holds(pr) == pr.pc \in {"loop", "ins", "mid", "wait"}

\* ... and under continueMu: continueCh closed and replaced, which releases
\* whoever waits on it
ContinueSignal(p) ==
    /\ ~panicked
    /\ pairs[p].signalPending
    /\ pairs' = IF pairs[p].continueDone
                THEN [pairs EXCEPT ![p].signalPending = FALSE]
                ELSE [pairs EXCEPT ![p].signalPending = FALSE,
                                   ![p].doneStale = pairs[p].doneWaits,
                                   ![p].bkd.stale = Holds(pairs[p].bkd),
                                   ![p].fwd.stale = Holds(pairs[p].fwd)]
    /\ UNCHANGED <<listVars, scanVars, cfg, mu, muCancel, cancelPair, cont, thr,
                   listMu, shadow, offs>>

\* ------------------------------------------------- Buffer: the producers
\* The head of the outer loop of a producer g of pair p: past <-myContinueCh
\* (not awaited the first time), the check of innerCtx, and under
\* continueMu.RLock() the channel and the number of lines to read.
Continued(p, g, toRead) ==
    IF pairs[p].cancelled
    THEN Exited
    ELSE [pairs[p][g] EXCEPT !.pc = "loop", !.stale = FALSE, !.left = toRead]

CanContinue(p, g) ==
    \/ pairs[p][g].pc = "first"
    \/ /\ pairs[p][g].pc = "wait"
       /\ pairs[p][g].stale \/ pairs[p].continueDone

BkdContinue(p) ==
    /\ ~panicked
    /\ CanContinue(p, "bkd")
    /\ pairs' = [pairs EXCEPT
                   ![p].bkd = Continued(p, "bkd", pairs[p].bkdToRead),
                   ![p].bkdReaderDone = pairs[p].cancelled]
    /\ UNCHANGED <<listVars, scanVars, cfg, mu, muCancel, cancelPair, cont, thr,
                   listMu, shadow, offs>>

\* One turn of the inner loop of the backwards producer up to WithLock: the
\* loop condition, the check of innerCtx, ReadLine and what it returned.
BkdReadLine(p) ==
    /\ ~panicked
    /\ pairs[p].bkd.pc = "loop"
    /\ IF pairs[p].bkd.left <= 0
       THEN /\ pairs' = [pairs EXCEPT ![p].bkd.pc = "wait"]
            /\ UNCHANGED <<panicked, bls, brd, bout>>
       ELSE IF pairs[p].cancelled
       THEN /\ pairs' = [pairs EXCEPT ![p].bkd = Exited,
                                      ![p].bkdReaderDone = TRUE]
            /\ UNCHANGED <<panicked, bls, brd, bout>>
       ELSE \E r \in {ReadLine(bls, brd)} :
            /\ bls' = r.s
            /\ brd' = r.pos
            /\ bout' = Append(bout, [line |-> r.line, start |-> r.start,
                                     err |-> r.err])
            /\ panicked' = (r.err # "nil" /\ r.err # "EOF")
            /\ pairs' =
                 IF r.err # "nil" /\ r.err # "EOF" THEN pairs
                 ELSE IF LenB(r.line) = 0 /\ r.err = "EOF"
                 THEN [pairs EXCEPT ![p].bkd = Exited,
                                    ![p].bkdReaderDone = TRUE]
                 ELSE [pairs EXCEPT ![p].bkd.pc = "ins",
                                    ![p].bkd.line = r.line,
                                    ![p].bkd.pos = r.start,
                                    ![p].bkd.eof = (r.err = "EOF")]
    /\ UNCHANGED <<list, file, maxRead, startPos, fwdVars, fwdBroken, rcall, cfg, mu,
                   muCancel, cancelPair, cont, thr, listMu, shadow, offs>>

\* a dropped line that counts as one of the lines to read
Dropped_NoRetry(toRead) == toRead

\* myBkdToRead++ / myFwdToRead++ for a line parseLine dropped
Dropped(toRead) == toRead + 1

\* a producer after WithLock: the next turn of its inner loop, or its end
AfterInsert(pr, stops) ==
    IF stops THEN Exited
    ELSE [pr EXCEPT !.pc = "loop", !.line = NilBytes, !.pos = 0 - 1]

\* WithLock of the backwards producer up to Prepend: the mutex, the copy of
\* the list, parseLine and Prepend on the copy.  A dropped line ends the
\* call: myBkdToRead++, and then the i++ of the loop.
BkdPrepend(p) ==
    /\ ~panicked
    /\ pairs[p].bkd.pc = "ins"
    /\ MuFree(listMu)
    /\ LET r == parseLine(cfg, pairs[p].bkd.pos, pairs[p].bkd.line) IN
       IF r = NilRecord
       THEN /\ pairs' = [pairs EXCEPT
                           ![p].bkd = AfterInsert([pairs[p].bkd EXCEPT
                                                     !.left = Dropped(@) - 1],
                                                  pairs[p].bkd.eof),
                           ![p].bkdReaderDone = pairs[p].bkd.eof]
            /\ UNCHANGED <<listMu, shadow>>
       ELSE /\ pairs' = [pairs EXCEPT ![p].bkd.pc = "mid"]
            /\ listMu' = <<p, "bkd">>
            /\ shadow' = Prepend(list, r)
    /\ UNCHANGED <<listVars, scanVars, cfg, mu, muCancel, cancelPair, cont, thr, offs>>

\* Prepend without the scroll that keeps the screen filled
Compensate_None(l, height) == [l |-> l, scrolled |-> FALSE]

\* "If prepending but we don't have a full screen of lines yet, we should
\* scroll up to try and fit more lines on screen."  The new record is head.
Compensate(l, height) ==
    LET canScroll == Min(height - CalcScreenLines(l, height).onScreen,
                         Len(l.recs[1]))
    IN IF canScroll > 0
       THEN [l |-> ScrollUp(l, canScroll).l, scrolled |-> TRUE]
       ELSE [l |-> l, scrolled |-> FALSE]

\* ... and from there to the end of WithLock: the scroll, the copy back to
\* the list and the mutex; then the check for io.EOF.
BkdScrollUp(p) ==
    /\ ~panicked
    /\ pairs[p].bkd.pc = "mid"
    /\ \E c \in {Compensate(shadow, cfg.height)} :
          /\ list' = c.l
          /\ pairs' = [(IF c.scrolled THEN continueAsyncReads(pairs, cont)
                        ELSE pairs) EXCEPT
                         ![p].bkd = [AfterInsert(pairs[p].bkd, pairs[p].bkd.eof)
                                       EXCEPT !.left = IF pairs[p].bkd.eof THEN 0
                                                       ELSE @ - 1],
                         ![p].bkdReaderDone = pairs[p].bkd.eof]
    /\ listMu' = <<>>
    /\ shadow' = NewBufferRecordList
    /\ offs' = <<pairs[p].bkd.pos>> \o offs
    /\ UNCHANGED <<panicked, scanVars, cfg, mu, muCancel, cancelPair, cont, thr>>

FwdContinue(p) ==
    /\ ~panicked
    /\ CanContinue(p, "fwd")
    /\ pairs' = [pairs EXCEPT
                   ![p].fwd = Continued(p, "fwd", pairs[p].fwdToRead),
                   ![p].fwdReaderDone = pairs[p].cancelled]
    /\ UNCHANGED <<listVars, scanVars, cfg, mu, muCancel, cancelPair, cont, thr,
                   listMu, shadow, offs>>

\* a forwards producer that returns at the end of the file in follow mode too
AtEOF_Return(followMode, pr) == Exited

\* Scan found nothing and there is no error: "If EOF, but we're in follow
\* mode, wait a bit and try reading the file again", or else return
AtEOF(followMode, pr) == IF followMode THEN pr ELSE Exited

\* One turn of the inner loop of the forwards producer up to WithLock.  In
\* follow mode the loop does not look at i, and a Scan that found nothing is
\* repeated after a second.
FwdScan(p) ==
    /\ ~panicked
    /\ pairs[p].fwd.pc = "loop"
    /\ IF ~(pairs[p].fwd.left > 0 \/ cfg.followMode)
       THEN /\ pairs' = [pairs EXCEPT ![p].fwd.pc = "wait"]
            /\ UNCHANGED <<panicked, fwdVars>>
       ELSE IF pairs[p].cancelled
       THEN /\ pairs' = [pairs EXCEPT ![p].fwd = Exited,
                                      ![p].fwdReaderDone = TRUE]
            /\ UNCHANGED <<panicked, fwdVars>>
       ELSE \E r \in {Scan(fls, frd)} :
            /\ fls' = r.s
            /\ frd' = r.pos
            /\ fout' = IF r.res THEN Append(fout, Bytes(r.s)) ELSE fout
            /\ fcall' = [res |-> r.res, bytes |-> Bytes(r.s), err |-> Err(r.s),
                         size |-> Len(file), carried |-> fls.isCarryOver,
                         failed |-> FALSE]
            /\ panicked' = (~r.res /\ Err(r.s) # "nil")
            /\ pairs' =
                 IF r.res
                 THEN [pairs EXCEPT ![p].fwd.pc = "ins",
                                    ![p].fwd.line = Bytes(r.s)]
                 ELSE IF Err(r.s) # "nil" THEN pairs
                 ELSE [pairs EXCEPT
                         ![p].fwd = AtEOF(cfg.followMode, @),
                         ![p].fwdReaderDone =
                             (AtEOF(cfg.followMode, pairs[p].fwd) = Exited)]
    /\ UNCHANGED <<list, file, maxRead, backVars, fwdBroken, rcall, cfg, mu, muCancel,
                   cancelPair, cont, thr, listMu, shadow, offs>>

\* WithLock of the forwards producer up to Append
FwdAppend(p) ==
    /\ ~panicked
    /\ pairs[p].fwd.pc = "ins"
    /\ MuFree(listMu)
    /\ LET r == parseLine(cfg, 0 - 1, pairs[p].fwd.line) IN
       IF r = NilRecord
       THEN /\ pairs' = [pairs EXCEPT
                           ![p].fwd = AfterInsert([pairs[p].fwd EXCEPT
                                                     !.left = Dropped(@) - 1],
                                                  FALSE)]
            /\ UNCHANGED <<listMu, shadow>>
       ELSE /\ pairs' = [pairs EXCEPT ![p].fwd.pc = "mid"]
            /\ listMu' = <<p, "fwd">>
            /\ shadow' = ListAppend(list, r)
    /\ UNCHANGED <<listVars, scanVars, cfg, mu, muCancel, cancelPair, cont, thr, offs>>

\* the offset in the file of the line the forwards scanner returned last
LastScanOffset ==
    bout[1].start + SumLens(SubSeq(fout, 1, Len(fout) - 1)) + (Len(fout) - 1)

\* the list left where Append left it
Follow_Stay(l, height) == l

\* in follow mode: records.ScrollToBottom(height)
Follow(l, height) == ScrollToBottom(l, height)

\* ... and from there to the end of WithLock
FwdScrollToBottom(p) ==
    /\ ~panicked
    /\ pairs[p].fwd.pc = "mid"
    /\ list' = IF cfg.followMode THEN Follow(shadow, cfg.height) ELSE shadow
    /\ pairs' = [(IF cfg.followMode THEN continueAsyncReads(pairs, cont)
                  ELSE pairs) EXCEPT
                   ![p].fwd = [AfterInsert(pairs[p].fwd, FALSE) EXCEPT
                                 !.left = IF cfg.followMode THEN @ ELSE @ - 1]]
    /\ listMu' = <<>>
    /\ shadow' = NewBufferRecordList
    /\ offs' = Append(offs, LastScanOffset)
    /\ UNCHANGED <<panicked, scanVars, cfg, mu, muCancel, cancelPair, cont, thr>>

\* ------------------------------------------------------ Buffer: the user
\* Buffer.Scroll by one line down or up, and b.continueAsyncReads()
Scroll(lines) ==
    /\ ~panicked
    /\ MuFree(listMu)
    /\ list' = IF lines > 0 THEN ScrollDown(list, lines).l
               ELSE ScrollUp(list, 0 - lines).l
    /\ pairs' = continueAsyncReads(pairs, cont)
    /\ UNCHANGED <<panicked, scanVars, cfg, mu, muCancel, cancelPair, cont, thr,
                   listMu, shadow, offs>>

\* one caller of SeekAndPopulate, the goroutines of its pairs, and the user
BufNext ==
    \/ SeekAndPopulate(1)
    \/ SeekOriented(1)
    \/ setupAsyncReads(1)
    \/ SetupAwaited(1)
    \/ SetupStart(1)
    \/ \E p \in Pairs : DoneWaits(p)
    \/ \E p \in Pairs : DoneCloses(p)
    \/ \E p \in Pairs : CancelCloses(p)
    \/ \E p \in Pairs : ContinueCalc(p)
    \/ \E p \in Pairs : ContinueSignal(p)
    \/ \E p \in Pairs : BkdContinue(p)
    \/ \E p \in Pairs : BkdReadLine(p)
    \/ \E p \in Pairs : BkdPrepend(p)
    \/ \E p \in Pairs : BkdScrollUp(p)
    \/ \E p \in Pairs : FwdContinue(p)
    \/ \E p \in Pairs : FwdScan(p)
    \/ \E p \in Pairs : FwdAppend(p)
    \/ \E p \in Pairs : FwdScrollToBottom(p)
    \/ \E lines \in {0 - 1, 1} : Scroll(lines)

\* A Buffer made by NewBuffer over the stable file f, with the fields c.
BufferOver(f, c) ==
    /\ list = NewBufferRecordList
    /\ panicked = FALSE
    /\ file = f
    /\ maxRead = MaxRead
    /\ bls = NoScanners.bls
    /\ brd = NoScanners.brd
    /\ fls = NoScanners.fls
    /\ frd = NoScanners.frd
    /\ bout = <<>>
    /\ startPos = 0
    /\ fout = <<>>
    /\ fcall = NoScan
    /\ fwdBroken = FALSE
    /\ rcall = NoRead
    /\ cfg = c
    /\ mu = 0
    /\ muCancel = 0
    /\ cancelPair = 0
    /\ cont = 0
    /\ pairs = [p \in Pairs |-> NoPair]
    /\ thr = [t \in Threads |-> NoThread]
    /\ listMu = <<>>
    /\ shadow = NewBufferRecordList
    /\ offs = <<>>

BufInit ==
    \E f \in BufFiles : \E width \in 1..MaxWidth :
    \E followMode \in BOOLEAN : \E keepAll \in BOOLEAN :
        BufferOver(f, NewBuffer(width, MaxScreen, followMode, keepAll))

\* TestThis: the file, the Buffer of NewApplication(10, 10, false, ...) with
\* bkdEager = fwdEager = 10, and one SeekAndPopulate at testSeekPos
testFile ==
    [i \in 1..10 |-> 47 + i] \o [i \in 1..6 |-> 96 + i] \o <<NL>>
        \o [i \in 1..16 |-> 102 + i] \o <<NL>>
        \o [i \in 1..4 |-> 118 + i] \o <<NL>>
testBuffer ==
    [NewBuffer(10, 10, FALSE, TRUE) EXCEPT !.bkdEager = 10, !.fwdEager = 10]
testSeekPos == 17

TestInit == BufferOver(testFile, testBuffer)

TestNext ==
    \/ PairsStarted + CallsInFlight = 0 /\ SeekAndPopulate(1)
    \/ SeekOrientedAt(1, testSeekPos, SeekStart)
    \/ setupAsyncReads(1)
    \/ SetupAwaited(1)
    \/ SetupStart(1)
    \/ DoneWaits(1)
    \/ DoneCloses(1)
    \/ ContinueCalc(1)
    \/ ContinueSignal(1)
    \/ BkdContinue(1)
    \/ BkdReadLine(1)
    \/ BkdPrepend(1)
    \/ BkdScrollUp(1)
    \/ FwdContinue(1)
    \/ FwdScan(1)
    \/ FwdAppend(1)
    \/ FwdScrollToBottom(1)

\* two goroutines that call SeekAndPopulate, and the goroutines of the pairs
RaceNext ==
    \/ \E t \in Threads : SeekAndPopulate(t)
    \/ \E t \in Threads : SeekOriented(t)
    \/ \E t \in Threads : setupAsyncReads(t)
    \/ \E t \in Threads : SetupAwaited(t)
    \/ \E t \in Threads : SetupStart(t)
    \/ \E p \in Pairs : DoneWaits(p)
    \/ \E p \in Pairs : DoneCloses(p)
    \/ \E p \in Pairs : CancelCloses(p)
    \/ \E p \in Pairs : ContinueCalc(p)
    \/ \E p \in Pairs : ContinueSignal(p)
    \/ \E p \in Pairs : BkdContinue(p)
    \/ \E p \in Pairs : BkdReadLine(p)
    \/ \E p \in Pairs : BkdPrepend(p)
    \/ \E p \in Pairs : BkdScrollUp(p)
    \/ \E p \in Pairs : FwdContinue(p)
    \/ \E p \in Pairs : FwdScan(p)
    \/ \E p \in Pairs : FwdAppend(p)
    \/ \E p \in Pairs : FwdScrollToBottom(p)

RaceInit == BufInit /\ Len(file) <= MaxRaceFile

\* ---------------------------------------------------------- specifications
Init == ListInit /\ ScannersIdle /\ CoIdle
Spec == Init /\ [][Next]_vars

SpecBack == BackInit /\ [][BackNext]_vars
SpecFwd  == FwdInit /\ [][FwdNext]_vars
SpecRace == RaceInit /\ [][RaceNext]_vars
SpecClose == BackInit /\ [][CloseNext]_vars
SpecRead == ReadInit /\ [][ReadNext]_vars

\* ------------------------------------------------------- a reader that fails
\* ReadLine calls that returned an error other than io.EOF
FailsSeen == Cardinality({i \in 1..Len(bout) : bout[i].err \notin {"nil", "EOF"}})

\* ReadLine on a reader that may stall or have lost the end of its file
DoReadLineFlaky ==
    /\ FailsSeen <= MaxPastEOF
    /\ DoReadLine

\* From here on the reader gives no bytes and no error.
DoStall ==
    /\ maxRead > 0
    /\ maxRead' = 0
    /\ UNCHANGED <<listVars, file, backVars, fwdVars, fwdBroken, rcall, coVars>>

\* The file is cut at size bytes by another process.
DoTruncate ==
    /\ \E size \in 0..(Len(file) - 1) : file' = SubSeq(file, 1, size)
    /\ UNCHANGED <<listVars, maxRead, backVars, fwdVars, fwdBroken, rcall, coVars>>

FlakyNext ==
    \/ DoReadLineFlaky
    \/ DoStall
    \/ DoTruncate

SpecFlaky == BackInit /\ [][FlakyNext]_vars
SpecTest == TestInit /\ [][TestNext]_vars
SpecFwdErr == FwdInit /\ [][FwdErrNext]_vars
SpecOrient == OrientInit /\ [][OrientNext]_vars
SpecBuf == BufInit /\ [][BufNext]_vars

\* Buffers with the eagerness set apart from the height, as the tests of the
\* package set it; one display line per column is enough here.
WindowBuffers ==
    {[NewBuffer(1, h, f, TRUE) EXCEPT !.bkdEager = b, !.fwdEager = w] :
        h \in 0..MaxScreen, f \in BOOLEAN, b \in 0..MaxEager, w \in 0..MaxEager}

\* One call of calcLinesToReadUsingAvailableLines, its two results kept where
\* the goroutine of continueAsyncReads keeps them.
DoCalc ==
    \E aboveScreen \in 0..MaxAvail, belowScreen \in 0..MaxAvail, onScreen \in 0..cfg.height :
        /\ pairs' = [pairs EXCEPT
             ![1].bkdToRead = calcLinesToReadUsingAvailableLines(
                                  cfg, aboveScreen, onScreen, belowScreen).bkdLines,
             ![1].fwdToRead = calcLinesToReadUsingAvailableLines(
                                  cfg, aboveScreen, onScreen, belowScreen).fwdLines]
        /\ UNCHANGED <<listVars, scanVars, cfg, mu, muCancel, cancelPair, cont, thr,
                       listMu, shadow, offs>>

CalcInit == ListInit /\ ScannersIdle /\ \E c \in WindowBuffers : CoIdleWith(c)
SpecCalc == CalcInit /\ [][DoCalc]_vars

\* ------------------------------------------------------------------ prune
\* The first loop of prune: PopFirst while hasAbove - recordLines is above
\* wantsAbove. records.head is nil once the last record is popped, and the
\* read of its lines at the end of the loop body panics.
RECURSIVE pruneBack(_, _, _, _)
pruneBack(l, hasAbove, recordLines, wantsAbove) ==
    IF hasAbove - recordLines > wantsAbove
    THEN LET popped == PopFirst(l) IN
         IF popped.recs = <<>>
         THEN [l |-> popped, panics |-> TRUE, pruned |-> 0]
         ELSE [pruneBack(popped, hasAbove - recordLines, Len(popped.recs[1]), wantsAbove)
                   EXCEPT !.pruned = @ + 1]
    ELSE [l |-> l, panics |-> FALSE, pruned |-> 0]

\* The second loop of prune, PopLast on the tail side.
RECURSIVE pruneFwd(_, _, _, _)
pruneFwd(l, hasBelow, recordLines, wantsBelow) ==
    IF hasBelow - recordLines > wantsBelow
    THEN LET popped == PopLast(l) IN
         IF popped.recs = <<>>
         THEN [l |-> popped, panics |-> TRUE, pruned |-> 0]
         ELSE [pruneFwd(popped, hasBelow - recordLines,
                        Len(popped.recs[Len(popped.recs)]), wantsBelow)
                   EXCEPT !.pruned = @ + 1]
    ELSE [l |-> l, panics |-> FALSE, pruned |-> 0]

\* Buffer.prune on the list l of the Buffer c: the list it leaves, whether it
\* panics, and the two counts it returns.
prune(c, l) ==
    IF l.recs = <<>>
    THEN [l |-> l, panics |-> TRUE, prunedBack |-> 0, prunedFwd |-> 0]
    ELSE
      LET has   == CalcScreenLines(l, c.height)
          wants == calcLinesToReadUsingAvailableLines(
                       c, has.aboveScreen, has.onScreen, has.belowScreen)
          After(back) ==
              IF back.panics \/ c.followMode
              THEN [l |-> back.l, panics |-> back.panics,
                    prunedBack |-> back.pruned, prunedFwd |-> 0]
              ELSE LET Both(fwd) ==
                           [l |-> fwd.l, panics |-> fwd.panics,
                            prunedBack |-> back.pruned, prunedFwd |-> fwd.pruned]
                   IN Both(pruneFwd(back.l, has.belowScreen,
                                    Len(back.l.recs[Len(back.l.recs)]), wants.fwdLines))
      IN After(pruneBack(l, has.aboveScreen, Len(l.recs[1]), wants.bkdLines))

DoPrune ==
    /\ ~panicked
    /\ \E r \in {prune(cfg, list)} :
          IF r.panics
          THEN /\ panicked' = TRUE
               /\ UNCHANGED <<list, scanVars, coVars>>
          ELSE Did(r.l)

\* The Buffers that prune is run with: a screen of at least one line and the
\* same eagerness on both sides, as NewBuffer sets it.
PruneBuffers == {c \in WindowBuffers : c.height > 0 /\ c.bkdEager = c.fwdEager}
PruneInit == ListInit /\ ScannersIdle /\ \E c \in PruneBuffers : CoIdleWith(c)
PruneNext == Next \/ DoPrune
SpecPrune == PruneInit /\ [][PruneNext]_vars

\* The goroutines of a pair: the one that closes doneCh, the one
\* cancelPopulate starts, and the two producers.
DoneGoroutine(p) == DoneWaits(p) \/ DoneCloses(p)
BkdProducer(p) ==
    BkdContinue(p) \/ BkdReadLine(p) \/ BkdPrepend(p) \/ BkdScrollUp(p)
FwdProducer(p) ==
    FwdContinue(p) \/ FwdScan(p) \/ FwdAppend(p) \/ FwdScrollToBottom(p)

\* Each of these goroutines takes a step in the end if it can take one from
\* some point on.  Nothing is assumed of the callers of SeekAndPopulate and
\* Scroll, nor of the goroutine of continueAsyncReads.
Fair ==
    \A p \in Pairs :
        /\ WF_vars(DoneGoroutine(p))
        /\ WF_vars(CancelCloses(p))
        /\ WF_vars(BkdProducer(p))
        /\ WF_vars(FwdProducer(p))

\* A screen of one line over a file of empty lines: the producers are to
\* read two or three lines at first, so they come to wait on continueCh
\* before the end of a file of three lines.
FairFiles == {[i \in 1..n |-> NL] : n \in 0..MaxFairFile}
FairInit ==
    \E f \in FairFiles : \E followMode, keepAll \in BOOLEAN :
        BufferOver(f, NewBuffer(1, 1, followMode, keepAll))

SpecFair == FairInit /\ [][BufNext]_vars /\ Fair

\* A screen of one line over a file of MaxIdleFile empty lines, every line
\* kept: the producers come to wait with lines of the file left to read.
IdleInit ==
    \E followMode \in BOOLEAN :
        BufferOver([i \in 1..MaxIdleFile |-> NL], NewBuffer(1, 1, followMode, TRUE))

SpecIdle == IdleInit /\ [][BufNext]_vars

\* The context given to NewBuffer is cancelled: innerCtx.Err() is not nil
\* from here on in every pair, those still to be made included.  The pairs
\* whose doneCh is closed have no goroutine left to see it.
CtxCancel ==
    /\ ~cfg.ctxDone
    /\ cfg' = [cfg EXCEPT !.ctxDone = TRUE]
    /\ pairs' = [p \in Pairs |->
                    IF pairs[p].created /\ ~pairs[p].doneCh
                    THEN [pairs[p] EXCEPT !.cancelled = TRUE]
                    ELSE pairs[p]]
    /\ UNCHANGED <<listVars, scanVars, mu, muCancel, cancelPair, cont, thr,
                   listMu, shadow, offs>>

CtxNext == BufNext \/ CtxCancel

\* a SeekAndPopulate call that has begun
Caller(t) == SeekOriented(t) \/ setupAsyncReads(t) \/ SetupAwaited(t) \/ SetupStart(t)

\* Every goroutine there is takes a step in the end if it can take one from
\* some point on; nothing is assumed of new calls of SeekAndPopulate and
\* Scroll.
FairAll ==
    /\ Fair
    /\ WF_vars(Caller(1))
    /\ \A p \in Pairs : WF_vars(ContinueCalc(p)) /\ WF_vars(ContinueSignal(p))

SpecCtx == FairInit /\ [][CtxNext]_vars /\ FairAll

\* ------------------------------------------- the channels of one pair
\* The pair of one setupAsyncReads call with every goroutine that closes one
\* of its channels counted apart: closerPending, calcPending and
\* signalPending are the numbers of goroutines of cancelPopulate and of
\* continueAsyncReads still to run, cancels and continues the numbers of
\* calls made.  A close of a closed channel panics.  The channel in
\* continueCh is closed exactly when continueDone is set: the only other
\* close puts a new channel in its place under the same lock.
ChanPair ==
    [ created       |-> TRUE,
      started       |-> FALSE,   \* setupAsyncReads is past b.mu.Lock()
      cancelled     |-> FALSE,
      continueDone  |-> FALSE,
      closerPending |-> 0,
      calcPending   |-> 0,
      signalPending |-> 0,
      cancels       |-> 0,
      continues     |-> 0,
      bkdReaderDone |-> FALSE,
      fwdReaderDone |-> FALSE,
      doneWaits     |-> FALSE,
      doneStale     |-> FALSE,
      doneCh        |-> FALSE,
      bkd           |-> "none",
      fwd           |-> "none" ]

ChanInit ==
    /\ ListInit
    /\ ScannersIdle
    /\ cfg = NewBuffer(1, 1, FALSE, TRUE)
    /\ mu = 0
    /\ muCancel = 0
    /\ cancelPair = 1
    /\ cont = 1
    /\ pairs = [p \in Pairs |-> IF p = 1 THEN ChanPair ELSE NoPair]
    /\ thr = [t \in Threads |-> NoThread]
    /\ listMu = <<>>
    /\ shadow = NewBufferRecordList
    /\ offs = <<>>

\* what a step of the pair changes
ChanStep(pr, panics) ==
    /\ ~panicked
    /\ pairs' = [pairs EXCEPT ![1] = pr]
    /\ panicked' = panics
    /\ UNCHANGED <<list, scanVars, cfg, mu, muCancel, cancelPair, cont, thr,
                   listMu, shadow, offs>>

\* the goroutine of cancelPopulate that closes whatever continueDone says
cancelCloser_Unguarded(pr) ==
    [pr     |-> [pr EXCEPT !.closerPending = @ - 1, !.continueDone = TRUE],
     panics |-> pr.continueDone]

\* the goroutine of cancelPopulate, under continueMu
cancelCloser(pr) ==
    IF ~pr.continueDone
    THEN [pr     |-> [pr EXCEPT !.closerPending = @ - 1, !.continueDone = TRUE],
          panics |-> pr.continueDone]
    ELSE [pr |-> [pr EXCEPT !.closerPending = @ - 1], panics |-> FALSE]

\* the goroutine of continueAsyncReads under continueMu: close(continueCh)
\* and a new channel in its place, which leaves the channels held by the
\* done goroutine closed
continueSignal(pr) ==
    IF ~pr.continueDone
    THEN [pr     |-> [pr EXCEPT !.signalPending = @ - 1, !.doneStale = pr.doneWaits],
          panics |-> pr.continueDone]
    ELSE [pr |-> [pr EXCEPT !.signalPending = @ - 1], panics |-> FALSE]

\* a call of the cancelPopulate of the pair
ChanCancelPopulate ==
    /\ pairs[1].cancels < MaxCalls
    /\ ChanStep([pairs[1] EXCEPT !.cancelled = TRUE, !.cancels = @ + 1,
                                 !.closerPending = @ + 1], FALSE)

ChanCloser ==
    /\ pairs[1].closerPending > 0
    /\ ChanStep(cancelCloser(pairs[1]).pr, cancelCloser(pairs[1]).panics)

\* a call of the continueAsyncReads of the pair
ChanContinueAsyncReads ==
    /\ pairs[1].continues < MaxCalls
    /\ ChanStep([pairs[1] EXCEPT !.continues = @ + 1, !.calcPending = @ + 1], FALSE)

\* its goroutine up to continueMu.Lock(): nothing to do once innerCtx is
\* cancelled
ChanCalc ==
    /\ pairs[1].calcPending > 0
    /\ ChanStep(IF pairs[1].cancelled
                THEN [pairs[1] EXCEPT !.calcPending = @ - 1]
                ELSE [pairs[1] EXCEPT !.calcPending = @ - 1, !.signalPending = @ + 1],
                FALSE)

ChanSignal ==
    /\ pairs[1].signalPending > 0
    /\ ChanStep(continueSignal(pairs[1]).pr, continueSignal(pairs[1]).panics)

\* setupAsyncReads from b.mu.Lock() on: both reader channels closed if the
\* pair is cancelled by now, the producers started otherwise
ChanSetup ==
    /\ ~pairs[1].started
    /\ IF pairs[1].cancelled
       THEN ChanStep([pairs[1] EXCEPT !.started = TRUE, !.bkdReaderDone = TRUE,
                                      !.fwdReaderDone = TRUE],
                     pairs[1].bkdReaderDone \/ pairs[1].fwdReaderDone)
       ELSE ChanStep([pairs[1] EXCEPT !.started = TRUE, !.bkd = "loop", !.fwd = "loop"],
                     FALSE)

\* a producer returns, for whatever reason: defer close of its channel
ChanExit(g) ==
    /\ pairs[1][g] = "loop"
    /\ IF g = "bkd"
       THEN ChanStep([pairs[1] EXCEPT !.bkd = "done", !.bkdReaderDone = TRUE],
                     pairs[1].bkdReaderDone)
       ELSE ChanStep([pairs[1] EXCEPT !.fwd = "done", !.fwdReaderDone = TRUE],
                     pairs[1].fwdReaderDone)

\* the done goroutine: past the two reader channels, at <-continueCh
ChanDoneWaits ==
    /\ ~pairs[1].doneWaits
    /\ pairs[1].bkdReaderDone /\ pairs[1].fwdReaderDone
    /\ ChanStep([pairs[1] EXCEPT !.doneWaits = TRUE, !.doneStale = FALSE], FALSE)

\* ... and close(doneCh), its last statement
ChanDoneCloses ==
    /\ pairs[1].doneWaits
    /\ pairs[1].doneStale \/ pairs[1].continueDone
    /\ ~pairs[1].doneCh
    /\ ChanStep([pairs[1] EXCEPT !.doneCh = TRUE], pairs[1].doneCh)

ChanNext ==
    \/ ChanCancelPopulate
    \/ ChanCloser
    \/ ChanContinueAsyncReads
    \/ ChanCalc
    \/ ChanSignal
    \/ ChanSetup
    \/ \E g \in {"bkd", "fwd"} : ChanExit(g)
    \/ ChanDoneWaits
    \/ ChanDoneCloses

SpecChan == ChanInit /\ [][ChanNext]_vars

\* ------------------------------------------------------------------ claims
Reverse(q) == [i \in 1..Len(q) |-> q[Len(q) + 1 - i]]

\* The segments of b between its newlines, in order: one more than newlines.
RECURSIVE SplitNL(_)
SplitNL(b) ==
    LET i == IndexByte(b, NL)
    IN IF i = 0 - 1 THEN <<b>>
       ELSE <<Slice(b, 0, i)>> \o SplitNL(Slice(b, i + 1, Len(b)))

CompleteLines(b) == LET q == SplitNL(b) IN SubSeq(q, 1, Len(q) - 1)
TrailingSegment(b) == LET q == SplitNL(b) IN q[Len(q)]

RECURSIVE JoinNL(_)
JoinNL(q) == IF q = <<>> THEN <<>> ELSE Head(q) \o <<NL>> \o JoinNL(Tail(q))

IsPrefix(p, q) == Len(p) <= Len(q) /\ SubSeq(q, 1, Len(p)) = p

\* C1: after any sequence of list operations the cached counters add up,
\* linesAboveScreenTop + linesBelowScreenTop = linesTotal.
C1_CountersAddUp ==
    list.linesAboveScreenTop + list.linesBelowScreenTop = list.linesTotal

\* C2: in a non-empty list linesAboveScreenTop is the number of display lines
\* before the cursor line and linesBelowScreenTop the number from it on.
C2_CountersMatchCursor ==
    list.recs # <<>> =>
        /\ list.linesAboveScreenTop = LinesBefore(list)
        /\ list.linesBelowScreenTop = LinesFrom(list)

\* C3: linesTotal is the sum of the display lines of the linked records.
C3_LinesTotalIsSum == list.linesTotal = SumLens(list.recs)

\* A pop has unlinked the record the cursor was in, which leaves the cursor
\* counters wrong, and linesTotal is still the sum of the two records left.
C3_Witness ==
    /\ Len(list.recs) = 2
    /\ list.linesTotal = 5
    /\ list.linesAboveScreenTop + list.linesBelowScreenTop # list.linesTotal

\* C4: in a non-empty list screenTop is a linked node and screenTopOffset
\* indexes one of its display lines.
C4_CursorInList ==
    list.recs # <<>> =>
        /\ list.screenTop \in 1..Len(list.recs)
        /\ list.screenTopOffset \in 0..(Len(list.recs[list.screenTop]) - 1)

\* PopLast has unlinked the record the cursor was in and moved the cursor to
\* the new tail, which leaves linesBelowScreenTop at 0.
C4_Witness ==
    /\ list.screenTop = Len(list.recs)
    /\ list.screenTop = 2
    /\ list.screenTopOffset = 0
    /\ list.linesBelowScreenTop = 0

AtFirstLine(l) == l.recs = <<>> \/ (l.screenTop = 1 /\ l.screenTopOffset = 0)
AtLastLine(l) ==
    \/ l.recs = <<>>
    \/ /\ l.screenTop = Len(l.recs)
       /\ l.screenTopOffset = Len(l.recs[l.screenTop]) - 1

\* the [2,3,1] example of the scrolling rules
ExampleRecs == <<MkRecord(2), MkRecord(3), MkRecord(1)>>

\* C5: ScrollUp(k) and ScrollDown(k) return moved in 0..k, move the cursor by
\* exactly moved display lines, and fall short of k only at the first line of
\* head (the last line of tail); lengths [2,3,1], cursor at the first line:
\* ScrollDown(4) returns 4 and ends on the second record at offset 2.
C5_ScrollMovesExactly ==
    /\ \A k \in 0..MaxScroll :
          LET up   == ScrollUp(list, k)
              down == ScrollDown(list, k)
          IN /\ up.ret \in 0..k
             /\ up.l.recs = list.recs
             /\ LinesBefore(up.l) = LinesBefore(list) - up.ret
             /\ up.ret < k => AtFirstLine(up.l)
             /\ down.ret \in 0..k
             /\ down.l.recs = list.recs
             /\ LinesBefore(down.l) = LinesBefore(list) + down.ret
             /\ down.ret < k => AtLastLine(down.l)
    /\ (list.recs = ExampleRecs /\ list.screenTop = 1 /\ list.screenTopOffset = 0)
          => LET down == ScrollDown(list, 4)
             IN down.ret = 4 /\ down.l.screenTop = 2 /\ down.l.screenTopOffset = 2

\* the state ScrollDown(4) leaves in the example: ScrollUp(4) moves back all
\* 4 lines, ScrollDown(4) is cut short after 1 line at the last line of tail
C5_Witness ==
    /\ list.recs = ExampleRecs
    /\ list.screenTop = 2
    /\ list.screenTopOffset = 2
    /\ list.linesAboveScreenTop = 4
    /\ list.linesBelowScreenTop = 2
    /\ ScrollUp(list, 4).ret = 4
    /\ ScrollDown(ScrollUp(list, 4).l, 4).l = list
    /\ ScrollDown(list, 4).ret = 1

\* C6: a ScrollUp(k) that moved k lines is undone by ScrollDown(k), which
\* returns k and restores cursor and counters; and the other way round.
C6_ScrollRoundTrip ==
    \A k \in 0..MaxScroll :
        LET up   == ScrollUp(list, k)
            down == ScrollDown(list, k)
        IN /\ up.ret = k => ScrollDown(up.l, k) = [l |-> list, ret |-> k]
           /\ down.ret = k => ScrollUp(down.l, k) = [l |-> list, ret |-> k]

\* a cursor in the last of three records, with wrong counters after a pop,
\* from which ScrollUp(3) moves three lines up into an earlier record
C6_Witness ==
    /\ Len(list.recs) = 3
    /\ list.screenTop = 3
    /\ list.linesAboveScreenTop # LinesBefore(list)
    /\ ScrollUp(list, 3).ret = 3
    /\ ScrollUp(list, 3).l.screenTop < 3

\* the first ReadLine result carrying io.EOF, 0 when there is none yet
FirstEOF ==
    IF EOFsSeen = 0 THEN 0
    ELSE CHOOSE i \in 1..Len(bout) :
            bout[i].err = "EOF" /\ \A j \in 1..(i - 1) : bout[j].err # "EOF"

BackLines ==
    [i \in 1..(IF FirstEOF = 0 THEN Len(bout) ELSE FirstEOF) |-> bout[i].line]

\* C7: the ReadLine results up to the first io.EOF are the segments of
\* file[0..P0) between newlines, last first, whatever the chunk size.
C7_BackwardLines ==
    LET ref == Reverse(SplitNL(SubSeq(file, 1, startPos)))
    IN /\ IsPrefix(BackLines, ref)
       /\ \A i \in 1..Len(BackLines) : bout[i].err \in {"nil", "EOF"}
       /\ FirstEOF # 0 => BackLines = ref

C7_Witness ==
    /\ FirstEOF = 2
    /\ bls.chunkSize = 1
    /\ maxRead = 1
    /\ startPos = 4
    /\ Len(bout[2].line) = 2
    /\ Len(bout[1].line) = 1

\* C8: the start offset returned with a line locates the line in the file,
\* and it is 0 for the line that begins the file.
C8_OffsetRoundTrip ==
    \A i \in 1..Len(bout) :
        bout[i].err \in {"nil", "EOF"} =>
            /\ bout[i].start >= 0
            /\ SubSeq(file, bout[i].start + 1, bout[i].start + Len(bout[i].line))
                  = bout[i].line
            /\ bout[i].err = "EOF" => bout[i].start = 0

C8_Witness ==
    /\ Len(bout) = 2
    /\ bls.chunkSize = 2
    /\ bout[1].start = 3
    /\ Len(bout[1].line) = 1
    /\ bout[2].start = 1
    /\ Len(bout[2].line) = 1

BackDone == FirstEOF # 0
FwdDone == fcall.size = Len(file) /\ ~fcall.res
Pending(s) == IF s.isCarryOver THEN s.token ELSE <<>>

C19_EOFAtStartOfFile ==
    /\ \A i \in 1..Len(bout) :
          /\ bout[i].err \in {"nil", "EOF"}
          /\ bout[i].err = "EOF" <=> bout[i].start = 0
          /\ (FirstEOF # 0 /\ i > FirstEOF) =>
                bout[i] = [line |-> <<>>, start |-> 0, err |-> "EOF"]
    /\ FirstEOF # 0 =>
          ReadLine(bls, brd) = [s |-> bls, pos |-> brd, line |-> <<>>,
                                start |-> 0, err |-> "EOF"]
    /\ (startPos = 0 /\ bout # <<>>) =>
          bout[1] = [line |-> <<>>, start |-> 0, err |-> "EOF"]

\* a line that begins after offset 0, the line that begins the file with
\* io.EOF, and a call after that
C19_Witness ==
    /\ Len(bout) = 3
    /\ FirstEOF = 2
    /\ bout[1].start > 0
    /\ bout[1].err = "nil"
    /\ Len(bout[2].line) > 0
    /\ bout[3] = [line |-> <<>>, start |-> 0, err |-> "EOF"]

\* C20: once the forwards scanner's reader has returned a hard I/O error,
\* that Scan call and every later one return false and Err() is the error.
C20_ScanFalseAfterError ==
    fcall.failed => (~fcall.res /\ fcall.err = "EIO")

\* the start P of the line around the seek position, the results of the
\* backwards scanner after the orientation up to its first io.EOF
OrientP == bout[1].start
OrientEOF ==
    LET I == {i \in 2..Len(bout) : bout[i].err = "EOF"}
    IN IF I = {} THEN 0 ELSE CHOOSE i \in I : \A j \in I : i <= j
OrientBackLines ==
    [i \in 1..((IF OrientEOF = 0 THEN Len(bout) ELSE OrientEOF) - 1) |->
        bout[i + 1].line]
FromP == SubSeq(file, OrientP + 1, Len(file))
BeforeP == SubSeq(file, 1, OrientP)

\* the lines of a file: the newline-terminated ones and a non-empty
\* unterminated last one
FileLines(b) ==
    CompleteLines(b) \o
        (IF TrailingSegment(b) = <<>> THEN <<>> ELSE <<TrailingSegment(b)>>)

\* P is the first byte of the line around the seek position
OrientAtLineStart ==
    /\ OrientP \in 0..startPos
    /\ OrientP > 0 => file[OrientP] = NL
    /\ \A i \in (OrientP + 1)..startPos : file[i] # NL

LineEnd(p) ==
    LET I == {i \in (p + 1)..Len(file) : file[i] = NL}
    IN IF I = {} THEN Len(file) + 1 ELSE CHOOSE i \in I : \A j \in I : i <= j
LineAtOffset(p) == SubSeq(file, p + 1, LineEnd(p) - 1)
IsLineStart(p) == p \in 0..Len(file) /\ (p = 0 \/ file[p] = NL)

\* C12: between two seeks the records of the list, head to tail, are lines
\* of the file at strictly increasing offsets, none twice: every record is
\* the wrapped line that begins at its offset, and the line the backwards
\* producer is about to link begins before the line of head.
C12_FileOrder ==
    /\ Len(offs) = Len(list.recs)
    /\ \A i \in 1..Len(offs) :
          /\ IsLineStart(offs[i])
          /\ list.recs[i] = WordWrap(LineAtOffset(offs[i]), cfg.width)
          /\ i < Len(offs) => offs[i] < offs[i + 1]
    /\ \A p \in Pairs :
          (pairs[p].bkd.pc = "mid" /\ offs # <<>>) => pairs[p].bkd.pos < offs[1]

\* a line linked by the backwards producer before a line linked by the
\* forwards producer, the forwards producer having linked its line first
C12_Witness ==
    /\ Len(offs) = 2
    /\ offs[1] < bout[1].start
    /\ offs[2] = bout[1].start
    /\ list.screenTopOffset = 0
    /\ list.recs[1] # list.recs[2]

\* ------------------------------------------------------------------- C13
\* the two producers of pair p have returned, or were never started
ProducersOver(p) ==
    /\ pairs[p].bkd.pc \in {"none", "done"}
    /\ pairs[p].fwd.pc \in {"none", "done"}

\* C13: the channel cancelPopulate returns for a pair is closed only once
\* both producers of the pair have returned or were never started, and so
\* with no WithLock of the pair under way; a pair whose channel is closed
\* holds no list mutex and has no producer left to link a record.
C13_DoneAfterProducers ==
    [][\A p \in Pairs :
          /\ (pairs'[p].doneCh /\ ~pairs[p].doneCh) =>
                 (ProducersOver(p) /\ (listMu = <<>> \/ listMu[1] # p))
          /\ pairs[p].doneCh =>
                 (pairs'[p].doneCh /\ pairs'[p].bkd = pairs[p].bkd
                    /\ pairs'[p].fwd = pairs[p].fwd
                    /\ (listMu' = <<>> \/ listMu'[1] # p))]_vars

\* a second SeekAndPopulate that cancelled a pair after it had linked two
\* records, and whose wait for the pair is over
C13_Witness ==
    /\ thr[1].pc = "awaitOld"
    /\ thr[1].old = 1
    /\ pairs[1].cancelled
    /\ pairs[1].doneCh
    /\ Len(list.recs) = 2

\* ------------------------------------------------------------------- C14
\* C14: the pair whose cancelPopulate is installed in b.cancelPopulate has
\* no predecessor with a producer still running: the new call has awaited
\* both old producers before it installs its own.
C14_InstalledAfterOldExit ==
    \A p \in Pairs : \A q \in Pairs :
        (cancelPair = p /\ q < p /\ pairs[q].created) => ProducersOver(q)

\* C15: a SeekAndPopulate whose seekAndOrient failed returns its error with
\* the list empty and no producer of any pair running.
C15_EmptyAfterFailedSeek ==
    [][\A t \in Threads :
          (thr[t].pc = "awaitOld" /\ thr'[t].pc = "idle") =>
              /\ thr'[t].err # "nil"
              /\ list' = NewBufferRecordList
              /\ \A p \in Pairs : pairs'[p].created => ProducersOver(p)']_vars

\* ------------------------------------------------------------------- C16
\* SeekAndPopulate has returned and no producer has a line left to read
Quiescent ==
    /\ thr[1].pc = "idle"
    /\ pairs[1].created
    /\ ProducersOver(1)

testLine2 == SubSeq(testFile, 18, 33)
testLine3 == SubSeq(testFile, 35, 38)

RECURSIVE AllLines(_)
AllLines(recs) == IF recs = <<>> THEN <<>> ELSE Head(recs) \o AllLines(Tail(recs))

LastLines(q, n) == SubSeq(q, Len(q) - n + 1, Len(q))

\* the list shows its last min(height, linesTotal) lines
AtBottom(l, height) ==
    /\ l.linesTotal = Len(AllLines(l.recs))
    /\ GetLinesToRender(l, height) =
          LastLines(AllLines(l.recs), Min(height, l.linesTotal))
    /\ l.linesAboveScreenTop = l.linesTotal - Min(height, l.linesTotal)

\* C17: in follow mode the list, right after the WithLock in which the
\* forwards producer appended a record and scrolled to the bottom, shows
\* its last min(height, linesTotal) display lines in file order, with
\* linesAboveScreenTop = linesTotal - min(height, linesTotal), whatever the
\* user scrolled and the backwards producer prepended before.
C17_FollowShowsBottom ==
    [][\A p \in Pairs :
          (cfg.followMode /\ pairs[p].fwd.pc = "mid" /\ pairs'[p].fwd.pc # "mid")
              => AtBottom(list', cfg.height)]_vars

\* follow mode: the forwards producer has appended its first record, the
\* backwards producer has prepended one, and the list, of more lines than
\* the screen has, shows its last lines
C17_Witness ==
    /\ cfg.followMode
    /\ Len(offs) = 2
    /\ offs[1] < bout[1].start
    /\ list.linesTotal > cfg.height
    /\ AtBottom(list, cfg.height)
    /\ list.linesAboveScreenTop > 0
    /\ \E p \in Pairs : pairs[p].fwd.pc = "loop" /\ Len(fout) = 1

\* ------------------------------------------------------------------- C18
\* the list as the WithLock of producer g of pair p leaves it
Inserted(p, g) ==
    IF g = "bkd" THEN Compensate(shadow, cfg.height).l
    ELSE IF cfg.followMode THEN Follow(shadow, cfg.height) ELSE shadow

\* C18: an insert of a producer is one step for everybody else.  From
\* Prepend to the end of the compensating ScrollUp, and from Append to the
\* end of ScrollToBottom, the producer holds the list mutex and works on
\* its own copy: the list stays as it was before the insert, nobody scrolls
\* it or computes lines to read from it, and the step that releases the
\* mutex puts the whole insert into the list.  With the mutex free there is
\* no insert half done, also once a cancelled pair is over.
C18_InsertAtomic ==
    [][/\ listMu # <<>> =>
             /\ pairs[listMu[1]][listMu[2]].pc = "mid"
             /\ shadow.recs = IF listMu[2] = "bkd"
                               THEN <<shadow.recs[1]>> \o list.recs
                               ELSE list.recs \o <<shadow.recs[Len(shadow.recs)]>>
             /\ list' # list =>
                    (listMu' = <<>> /\ list' = Inserted(listMu[1], listMu[2]))
             /\ \A p \in Pairs :
                    /\ pairs'[p].bkdToRead = pairs[p].bkdToRead
                    /\ pairs'[p].fwdToRead = pairs[p].fwdToRead
       /\ listMu = <<>> =>
             /\ shadow = NewBufferRecordList
             /\ \A p \in Pairs : pairs[p].bkd.pc # "mid" /\ pairs[p].fwd.pc # "mid"
             /\ Len(offs) = Len(list.recs)]_vars

\* the backwards producer between Prepend and ScrollUp, of a record that
\* the scroll is to bring on screen, the cursor on the second line of a record
C18_Witness ==
    /\ listMu # <<>>
    /\ listMu[2] = "bkd"
    /\ list.recs # <<>>
    /\ list.screenTopOffset > 0
    /\ Compensate(shadow, cfg.height).scrolled
    /\ Compensate(shadow, cfg.height).l # shadow

\* ------------------------------------------------------------------- C21
\* F[a .. b)
FileSlice(a, b) == SubSeq(file, a + 1, b)

toRead == Min(rcall.fromPos, Len(rcall.pre))

\* the trivial call: nothing read, nothing moved
TrivialRead ==
    /\ rcall.res = [N |-> 0, NextPos |-> rcall.fromPos, Seeked |-> FALSE,
                    LeftToRead |-> 0 - 1, err |-> "nil"]
    /\ rcall.buf = rcall.pre
    /\ rcall.posAfter = rcall.posBefore

\* C21 as claimed: ReadBackwardsFrom(F, p, buf) reads to_read = min(p, b)
\* bytes, buf[0..to_read) = F[p - to_read .. p) with the rest of buf left
\* alone, N = to_read, NextPos = p - to_read, LeftToRead = 0; calls chained
\* by NextPos cover F[NextPos .. p) without gap or overlap; with
\* to_read = 0 the call is the trivial one.
C21_ReadsAllAsked ==
    rcall.calls > 0 =>
        /\ IF toRead = 0 THEN TrivialRead
           ELSE /\ rcall.res.N = toRead
                /\ rcall.res.NextPos = rcall.fromPos - toRead
                /\ rcall.res.LeftToRead = 0
                /\ rcall.res.Seeked
                /\ SubSeq(rcall.buf, 1, toRead)
                      = FileSlice(rcall.fromPos - toRead, rcall.fromPos)
                /\ SubSeq(rcall.buf, toRead + 1, Len(rcall.buf))
                      = SubSeq(rcall.pre, toRead + 1, Len(rcall.pre))
        /\ rcall.got = FileSlice(rcall.res.NextPos, rcall.from)

\* C21 amended: the call seeks to NextPos = p - to_read and makes one Read
\* of to_read bytes there, which may give fewer: N is what the Read gave,
\* none at or past the end of the file, buf[0..N) = F[NextPos .. NextPos + N)
\* with the rest of buf left alone, and LeftToRead = to_read - N.  Calls
\* chained by NextPos cover F[NextPos .. p) as long as each left nothing to
\* read.
C21_ReadsWhatReadGives ==
    rcall.calls > 0 =>
        /\ IF toRead = 0 THEN TrivialRead
           ELSE /\ rcall.res.NextPos = rcall.fromPos - toRead
                /\ rcall.res.Seeked
                /\ rcall.res.N =
                      Min(Min(toRead, maxRead), Max(Len(file) - rcall.res.NextPos, 0))
                /\ rcall.res.LeftToRead = toRead - rcall.res.N
                /\ rcall.res.err = "EOF" <=> rcall.res.NextPos >= Len(file)
                /\ rcall.res.err \in {"nil", "EOF"}
                /\ rcall.posAfter = rcall.res.NextPos + rcall.res.N
                /\ SubSeq(rcall.buf, 1, rcall.res.N)
                      = FileSlice(rcall.res.NextPos, rcall.res.NextPos + rcall.res.N)
                /\ SubSeq(rcall.buf, rcall.res.N + 1, Len(rcall.buf))
                      = SubSeq(rcall.pre, rcall.res.N + 1, Len(rcall.pre))
        /\ rcall.whole => rcall.got = FileSlice(rcall.res.NextPos, rcall.from)

\* three calls that left nothing to read, the third the trivial one at
\* position 0: together the four bytes of the file
C21_Witness ==
    /\ rcall.calls = 3
    /\ rcall.whole
    /\ rcall.from = 4
    /\ rcall.got = file
    /\ rcall.res.Seeked = FALSE
    /\ Len(rcall.pre) = 2
    /\ rcall.posBefore = 2
    /\ rcall.posAfter = 2

\* ------------------------------------------------------------------- C22
\* the display lines before the cursor line
LinesBeforeCursor(l) ==
    IF l.screenTop = 0 THEN 0
    ELSE SumLens(SubSeq(l.recs, 1, l.screenTop - 1)) + l.screenTopOffset

\* the display lines from the cursor line to the end of tail
LinesFromCursor(l) ==
    IF l.screenTop = 0 THEN 0 ELSE SumLens(l.recs) - LinesBeforeCursor(l)

\* C22: GetLinesToRender(count) returns the first min(count, L) display
\* lines from screenTop[screenTopOffset] on, across the records in list
\* order, L being the number of display lines from the cursor line to the
\* end of tail; nothing for the empty list.
C22_RenderFromCursor ==
    ~panicked =>
        \A count \in 0..(MaxHeight + 1) :
            /\ GetLinesToRender(list, count) =
                  SubSeq(AllLines(list.recs), LinesBeforeCursor(list) + 1,
                         LinesBeforeCursor(list) + Min(count, LinesFromCursor(list)))
            /\ list.recs = <<>> => GetLinesToRender(list, count) = <<>>

\* three records, the cursor on the second line of the first: two lines
\* asked for come from two records and are not all there is
C22_Witness ==
    /\ ~panicked
    /\ Len(list.recs) = 3
    /\ list.screenTop = 1
    /\ list.screenTopOffset = 1
    /\ Len(list.recs[1]) = 2
    /\ GetLinesToRender(list, 2) = <<2, 1>>
    /\ LinesFromCursor(list) > 2

\* ------------------------------------------------------------------- C23
\* C23: after Close, called once or several times, every ReadLine returns
\* no line, offset -1 and ErrUseAfterClose, whatever chunks, newline index
\* or io.EOF the scanner had when it was closed.
C23_UseAfterClose ==
    \A i \in 1..Len(bout) :
        (bout[i] # CloseCall /\ \E j \in 1..(i - 1) : bout[j] = CloseCall) =>
            bout[i] = [line |-> NilBytes, start |-> 0 - 1, err |-> ErrUseAfterClose]

\* a scanner closed with a newline found and chunks left, read, closed
\* again and read again
C23_Witness ==
    /\ Len(bout) = 5
    /\ bout[1].err = "nil"
    /\ bout[2] = CloseCall
    /\ bout[3].err = ErrUseAfterClose
    /\ bout[4] = CloseCall
    /\ bout[5].err = ErrUseAfterClose
    /\ Len(file) = 4
    /\ bout[1].start = 2

\* ------------------------------------------------------------------- C24
\* caller a holds b.mu in SeekAndPopulate and waits for the channel of a
\* pair whose reader channels only the setupAsyncReads of caller b can
\* close, past its own b.mu.Lock()
WaitsUnderMu(a, b) ==
    /\ thr[a].pc = "awaitOld"
    /\ mu = a
    /\ thr[a].old # 0
    /\ thr[b].pc \in {"awaitPrev", "lockMu"}
    /\ thr[b].pair = thr[a].old
    /\ ~pairs[thr[a].old].doneCh

\* C24: no caller of SeekAndPopulate holds b.mu while it waits on the
\* channel of a cancelPopulate that closes only after another goroutine
\* has taken b.mu.
C24_NoWaitUnderMu ==
    \A a \in Threads : \A b \in Threads : ~WaitsUnderMu(a, b)

\* ------------------------------------------------------------------- C25
\* a producer of pair p is between its start and its exit
Live(p) == ~ProducersOver(p)

\* C25: never two pairs with a running producer; a pair's producers start
\* only when every other pair's producers are over; and seekAndOrient, the
\* only other user of the two scanners, runs only when no producer runs.
C25_OnePairLive ==
    [][/\ \A p \in Pairs : \A q \in Pairs : (p # q) => ~(Live(p)' /\ Live(q)')
       /\ \A p \in Pairs :
             (~Live(p) /\ Live(p)') => \A q \in Pairs : (q # p) => ProducersOver(q)
       /\ \A t \in Threads :
             (thr[t].pc = "awaitOld" /\ thr'[t].pc # "awaitOld") =>
                 \A p \in Pairs : ProducersOver(p)]_vars

\* the second pair at work after the first one, started and cancelled, is over
C25_Witness ==
    /\ pairs[1].doneCh
    /\ pairs[1].bkd.pc = "done"
    /\ pairs[1].fwd.pc = "done"
    /\ pairs[2].bkd.pc = "loop"
    /\ pairs[2].fwd.pc = "loop"

\* ------------------------------------------------------------------- C26
\* C26: once a pair with a running producer is cancelled, both of its
\* producers end and the channel cancelPopulate returned is closed.
C26_CancelledPairEnds ==
    \A p \in Pairs :
        (pairs[p].cancelled /\ Live(p)) ~> (ProducersOver(p) /\ pairs[p].doneCh)

\* a pair cancelled in follow mode while its backwards producer waits on
\* continueCh and its forwards producer repeats a Scan that found nothing
C26_Witness ==
    /\ cfg.followMode
    /\ pairs[1].cancelled
    /\ pairs[1].bkd.pc = "wait"
    /\ pairs[1].fwd.pc = "loop"
    /\ ~fcall.res
    /\ fcall.size = Len(file)

\* ------------------------------------------------------------------- C27
\* the step of caller t that assigns b.cancelPopulate and
\* b.continueAsyncReads in setupAsyncReads
WritesCancelPopulate(t) == thr[t].pc = "setup" /\ thr'[t].pc = "awaitPrev"

\* the step of producer g of pair p that copies bkdToRead or fwdToRead
ReadsTargets(p, g) ==
    pairs[p][g].pc \in {"first", "wait"} /\ pairs'[p][g].pc = "loop"

\* C27: b.cancelPopulate and the wake function are written, and the read
\* targets are read, with b.mu held by the goroutine that does it: the
\* caller that writes holds b.mu, and b.mu is not free when a producer
\* reads its target.
C27_SharedUnderMu ==
    [][/\ \A t \in Threads : WritesCancelPopulate(t) => mu = t
       /\ \A p \in Pairs : \A g \in {"bkd", "fwd"} :
             ReadsTargets(p, g) => mu # 0]_vars

\* ------------------------------------------------------------------- C28
\* the display lines the screen shows: those from the cursor line to the
\* end of the list, as far as the height goes
OnScreen(l, height) == Min(height, LinesFromCursor(l))

\* the step that ends the WithLock of the backwards producer of pair p
\* after a Prepend
PrependDone(p) == pairs[p].bkd.pc = "mid" /\ pairs'[p].bkd.pc # "mid"

\* C28: over the WithLock in which the backwards producer prepends r to a
\* list whose screen shows on lines, the cursor goes up by
\* min(height - on, len(r.lines)) display lines and the screen shows that
\* many lines more, from the empty list too; with on = height the cursor
\* line stays.
C28_PrependFillsScreen ==
    [][\A p \in Pairs :
          PrependDone(p) =>
              /\ LinesBeforeCursor(list') =
                     LinesBeforeCursor(list) + Len(shadow.recs[1])
                       - Min(cfg.height - OnScreen(list, cfg.height),
                             Len(shadow.recs[1]))
              /\ OnScreen(list', cfg.height) =
                     OnScreen(list, cfg.height)
                       + Min(cfg.height - OnScreen(list, cfg.height),
                             Len(shadow.recs[1]))]_vars

\* ------------------------------------------------------------------- C29
\* the step in which producer g of pair p finds that parseLine dropped its line
DropsLine(p, g) ==
    /\ pairs[p][g].pc = "ins"
    /\ pairs'[p][g].pc # "ins"
    /\ parseLine(cfg, pairs[p][g].pos, pairs[p][g].line) = NilRecord

\* the records linked since the seek, before and from the line the seek
\* found: those of the backwards and those of the forwards producer
Prepended == Cardinality({i \in 1..Len(offs) : offs[i] < bout[1].start})
Appended == Len(offs) - Prepended

\* a producer inside a batch: between its read of the target and its wait,
\* or its return
InBatch(pr) == pr.pc \in {"loop", "ins", "mid"}

\* C29: a dropped line leaves the list, its cursor and its counters as
\* they are and the lines left to read of the batch too (the target and the
\* loop index both go up by one); so a batch starts with its target T as
\* the lines left to read, and all through it the records it has linked and
\* the lines left to read add up to T.
C29_DropLeavesList ==
    [][/\ \A p \in Pairs : \A g \in {"bkd", "fwd"} :
             DropsLine(p, g) =>
                 /\ list' = list
                 /\ shadow' = shadow
                 /\ listMu' = listMu
                 /\ offs' = offs
                 /\ pairs'[p][g].pc = "loop" =>
                        pairs'[p][g].left = pairs[p][g].left
       /\ \A p \in Pairs :
             /\ ReadsTargets(p, "bkd") => pairs'[p].bkd.left = pairs[p].bkdToRead
             /\ ReadsTargets(p, "fwd") => pairs'[p].fwd.left = pairs[p].fwdToRead
             /\ (InBatch(pairs[p].bkd) /\ InBatch(pairs'[p].bkd)) =>
                    Prepended' + pairs'[p].bkd.left = Prepended + pairs[p].bkd.left
             /\ (InBatch(pairs[p].fwd) /\ InBatch(pairs'[p].fwd) /\ ~cfg.followMode) =>
                    Appended' + pairs'[p].fwd.left = Appended + pairs[p].fwd.left]_vars

\* a backwards batch that goes on after the line it read was dropped:
\* nothing linked, four lines left to read as at its start
C29_Witness ==
    /\ ~cfg.keepAll
    /\ pairs[1].bkd.pc = "loop"
    /\ Len(bout) = 2
    /\ bout[2].err = "nil"
    /\ parseLine(cfg, bout[2].start, bout[2].line) = NilRecord
    /\ Prepended = 0
    /\ pairs[1].bkd.left = 4

\* ------------------------------------------------------------------- C30
\* producer g of pair p returns in this step
Exits(p, g) == pairs[p][g].pc \notin {"none", "done"} /\ pairs'[p][g].pc = "done"

\* the forwards producer of pair p calls Scan in this step and finds the
\* end of the file
ScansEOF(p) ==
    /\ pairs[p].fwd.pc = "loop"
    /\ ~pairs[p].cancelled
    /\ pairs[p].fwd.left > 0 \/ cfg.followMode
    /\ <<fls, frd, fout, fcall, pairs[p].fwd.pc>> # <<fls', frd', fout', fcall', pairs'[p].fwd.pc>>
    /\ ~fcall'.res
    /\ fcall'.err = "nil"

\* the backwards producer of pair p calls ReadLine in this step and gets
\* io.EOF with it
ReadsEOF(p) ==
    /\ pairs[p].bkd.pc = "loop"
    /\ Len(bout') = Len(bout) + 1
    /\ bout'[Len(bout')].err = "EOF"

\* C30: at the end of the file the forwards producer goes on in follow mode
\* and returns otherwise; the backwards producer returns when ReadLine gave
\* io.EOF, at once if there is no line with it and after it has linked the
\* line otherwise; and a producer that is not cancelled returns in no
\* other step.
C30_ProducersReturnAtEOF ==
    [][\A p \in Pairs :
          /\ ScansEOF(p) =>
                 pairs'[p].fwd.pc = (IF cfg.followMode THEN "loop" ELSE "done")
          /\ ReadsEOF(p) =>
                 \/ pairs'[p].bkd.pc = "done"
                 \/ pairs'[p].bkd.pc = "ins" /\ pairs'[p].bkd.eof
          /\ (pairs[p].bkd.pc \in {"ins", "mid"} /\ pairs[p].bkd.eof
                 /\ pairs'[p].bkd.pc \notin {"ins", "mid"}) =>
                 pairs'[p].bkd.pc = "done"
          /\ (pairs[p].bkd.pc = "loop" /\ pairs'[p].bkd.pc = "ins") =>
                 pairs'[p].bkd.eof = (bout'[Len(bout')].err = "EOF")
          /\ (Exits(p, "fwd") /\ ~pairs[p].cancelled) =>
                 ~cfg.followMode /\ ScansEOF(p)
          /\ (Exits(p, "bkd") /\ ~pairs[p].cancelled) =>
                 \/ ReadsEOF(p)
                 \/ pairs[p].bkd.pc \in {"ins", "mid"} /\ pairs[p].bkd.eof]_vars

\* follow mode: the backwards producer has returned at the start of the
\* file and the forwards producer is still in its loop after a Scan that
\* found nothing, with nobody having cancelled the pair
C30_Witness ==
    /\ cfg.followMode
    /\ ~pairs[1].cancelled
    /\ pairs[1].bkd.pc = "done"
    /\ pairs[1].fwd.pc = "loop"
    /\ Len(fout) > 0
    /\ ~fcall.res
    /\ fcall.size = Len(file)

\* ------------------------------------------------------------------- C31
\* C31: for lines above, on and below the screen that are not negative, with
\* no more lines on the screen than its height, the lines to read backwards
\* are the larger of bkdEager - above and height - on, so height - on at
\* least and never negative; the lines to read forwards are
\* (height - on) + max(fwdEager - below, 0) and never negative, and 0 in
\* follow mode.
C31_LinesToRead ==
    \A above \in 0..MaxAvail : \A below \in 0..MaxAvail : \A on \in 0..cfg.height :
        /\ calcLinesToReadUsingAvailableLines(cfg, above, on, below).bkdLines
              \in {cfg.bkdEager - above, cfg.height - on}
        /\ calcLinesToReadUsingAvailableLines(cfg, above, on, below).bkdLines
              >= cfg.bkdEager - above
        /\ calcLinesToReadUsingAvailableLines(cfg, above, on, below).bkdLines
              >= cfg.height - on
        /\ calcLinesToReadUsingAvailableLines(cfg, above, on, below).bkdLines >= 0
        /\ calcLinesToReadUsingAvailableLines(cfg, above, on, below).fwdLines >= 0
        /\ calcLinesToReadUsingAvailableLines(cfg, above, on, below).fwdLines =
              IF cfg.followMode THEN 0
              ELSE (cfg.height - on)
                     + (IF cfg.fwdEager > below THEN cfg.fwdEager - below ELSE 0)

\* no eagerness backwards and an empty screen of two lines: two lines to
\* read backwards, and forwards the screen and the eagerness
C31_Witness ==
    /\ cfg.bkdEager = 0
    /\ cfg.height = 2
    /\ cfg.fwdEager = 2
    /\ ~cfg.followMode
    /\ pairs[1].bkdToRead = 2
    /\ pairs[1].fwdToRead = 4

\* ------------------------------------------------------------------- C32
\* the display lines below the screen of the given height
LinesBelowScreen(l, height) == Max(LinesFromCursor(l) - height, 0)

\* C32: prune pops the head record only while above - len(head lines) >
\* bkdEager and, outside follow mode only, the tail record only while
\* below - len(tail lines) > fwdEager; so after prune at least
\* min(above before, bkdEager) display lines remain above the screen and at
\* least min(below before, fwdEager) below it, and in follow mode the tail
\* is never popped. Stated for every list whose counters match its records.
C32_PruneKeepsWindow ==
    (/\ ~panicked
     /\ list.recs # <<>>
     /\ list.linesAboveScreenTop = LinesBeforeCursor(list)
     /\ list.linesBelowScreenTop = LinesFromCursor(list)) =>
        \A r \in {prune(cfg, list)} :
            ~r.panics =>
              /\ r.prunedBack > 0 =>
                    LinesBeforeCursor(list) - Len(list.recs[1]) > cfg.bkdEager
              /\ r.prunedFwd > 0 =>
                    /\ ~cfg.followMode
                    /\ LinesBelowScreen(list, cfg.height)
                           - Len(list.recs[Len(list.recs)]) > cfg.fwdEager
              /\ LinesBeforeCursor(r.l) >= Min(LinesBeforeCursor(list), cfg.bkdEager)
              /\ LinesBelowScreen(r.l, cfg.height)
                     >= Min(LinesBelowScreen(list, cfg.height), cfg.fwdEager)
              /\ cfg.followMode =>
                    r.l.recs[Len(r.l.recs)] = list.recs[Len(list.recs)]

\* ------------------------------------------------------------------- C33
\* the next ReadLine call loads a chunk
Loads(s) == s.lastErr = "nil" /\ s.nextNewLine = 0 - 1 /\ s.nextPos > 0

\* the file offset at which that chunk starts
ChunkStart(s) == s.nextPos - Min(s.chunkSize, s.nextPos)

\* the step is a ReadLine call that returned
Returns == Len(bout') = Len(bout) + 1

\* errors.Is(err, io.ErrNoProgress)
IsNoProgress(err) == err \in {"ErrNoProgress", ShortRead("ErrNoProgress")}

\* C33: when a chunk load still has bytes to read after maxEmptyReads reads
\* in a row that gave no byte and no error, ReadLine fails with the
\* no-progress error and returns no line built from the incomplete chunk;
\* also for the chunk that starts at file offset 0.
C33_NoProgressFails ==
    [][(/\ Returns
        /\ maxRead = 0
        /\ Loads(bls)
        /\ ChunkStart(bls) < Len(file)) =>
            /\ IsNoProgress(bout'[Len(bout')].err)
            /\ bout'[Len(bout')].line = NilBytes
            /\ bout'[Len(bout')].start = 0 - 1]_vars

\* ------------------------------------------------------------------- C34
\* the reader reports io.EOF in the chunk load of the next ReadLine call
HitsEOF ==
    /\ Loads(bls)
    /\ IF maxRead = 0 THEN ChunkStart(bls) >= Len(file) ELSE bls.nextPos > Len(file)

UnexpectedEnd == [line |-> NilBytes, start |-> 0 - 1, err |-> "ErrUnexpectedEOF"]

\* C34: when the reader reports io.EOF while a chunk is loaded, that
\* ReadLine returns no line, -1 and io.ErrUnexpectedEOF, and every later
\* ReadLine of the scanner returns the same without a read or a seek.
C34_UnexpectedEnd ==
    [][Returns =>
         /\ HitsEOF => bout'[Len(bout')] = UnexpectedEnd
         /\ bls.lastErr = "ErrUnexpectedEOF" =>
               /\ bout'[Len(bout')] = UnexpectedEnd
               /\ bls' = bls
               /\ brd' = brd]_vars

C34_Witness ==
    /\ Len(bout) = 3
    /\ bout[1].err = "nil"
    /\ bout[2] = UnexpectedEnd
    /\ bout[3] = UnexpectedEnd
    /\ bls.chunks[Len(bls.chunks)].len > 0
    /\ bls.nextPos = 0

\* ------------------------------------------------------------------- C35
\* C35: in every state of the list driven by the producers and the scrolls
\* of the user, outside the calls that hold its lock, the onScreen count of
\* CalcScreenLines(height) is the number of strings GetLinesToRender(height)
\* returns, and both are min(height, display lines from the cursor line to
\* the end of tail).
C35_OnScreenIsRendered ==
    (~panicked /\ listMu = <<>>) =>
        /\ CalcScreenLines(list, cfg.height).onScreen
               = Len(GetLinesToRender(list, cfg.height))
        /\ Len(GetLinesToRender(list, cfg.height))
               = Min(cfg.height, LinesFromCursor(list))

\* ------------------------------------------------------------------- C36
\* C36: once the context given to NewBuffer is cancelled, both producers of
\* a pair end, a producer that waits on continueCh at that moment included,
\* whether or not Scroll or SeekAndPopulate is called again.
C36_CtxCancelEndsProducers ==
    \A p \in Pairs : (cfg.ctxDone /\ pairs[p].created) ~> ProducersOver(p)

\* ------------------------------------------------------------------- C37
\* C37: under every interleaving of calls of cancelPopulate, calls of
\* continueAsyncReads and producer exits of one pair no channel is closed
\* twice (no close panics), and once the cancellation has marked continueCh
\* done it is neither closed nor replaced again.
C37_NoDoubleClose ==
    /\ [](~panicked)
    /\ [][pairs[1].continueDone =>
             /\ pairs'[1].continueDone
             /\ pairs'[1].doneStale => pairs[1].doneStale \/ ~pairs[1].doneWaits]_vars

\* cancelPopulate called twice and continueAsyncReads called, every one of
\* their goroutines over, every channel of the pair closed
C37_Witness ==
    /\ pairs[1].cancels = 2
    /\ pairs[1].continues > 0
    /\ pairs[1].closerPending = 0
    /\ pairs[1].calcPending = 0
    /\ pairs[1].signalPending = 0
    /\ pairs[1].bkd = "done"
    /\ pairs[1].fwd = "done"
    /\ pairs[1].doneCh
    /\ ~panicked

\* ------------------------------------------------------------------- C38
\* the goroutine of continueAsyncReads of pair p closes and replaces
\* continueCh in this step
SignalCompletes(p) ==
    /\ pairs[p].signalPending
    /\ ~pairs'[p].signalPending
    /\ ~pairs[p].continueDone
    /\ ~pairs'[p].doneCh

\* producer g of pair p can take the step after its wait
Released(p, g) == IF g = "bkd" THEN ENABLED BkdContinue(p) ELSE ENABLED FwdContinue(p)

\* C38: no wake-up is lost.  When the signal of continueAsyncReads completes
\* while a producer is inside a batch, the channel the producer holds is
\* closed and stays so until the producer reads the target again or
\* returns; at its next wait the producer is not blocked.
C38_NoLostWakeUp ==
    [][\A p \in Pairs : \A g \in {"bkd", "fwd"} :
         /\ (SignalCompletes(p) /\ InBatch(pairs[p][g])) => pairs'[p][g].stale
         /\ (pairs[p][g].stale /\ pairs[p][g].pc \in {"loop", "ins", "mid", "wait"}) =>
               \/ pairs'[p][g].stale /\ pairs'[p][g].pc \in {"loop", "ins", "mid", "wait"}
               \/ ReadsTargets(p, g)
               \/ pairs'[p][g].pc = "done"
         /\ (pairs[p][g].stale /\ pairs[p][g].pc = "wait" /\ ~panicked) =>
               Released(p, g)]_vars

\* the signal has come while both producers are inside a batch, the
\* backwards one with a line in hand, the pair not cancelled
C38_Witness ==
    /\ ~cfg.followMode
    /\ pairs[1].bkd.pc = "ins"
    /\ pairs[1].bkd.stale
    /\ pairs[1].fwd.pc = "loop"
    /\ pairs[1].fwd.stale
    /\ ~pairs[1].cancelled
    /\ ~pairs[1].signalPending

\* ------------------------------------------------------------------- C39
\* both producers of pair p wait on continueCh or have returned, the pair is
\* the current one and not cancelled, and no call, no goroutine of
\* continueAsyncReads and no closed channel is about to wake a producer
Quiet(p) ==
    /\ ~panicked
    /\ cancelPair = p
    /\ \A t \in Threads : thr[t].pc = "idle"
    /\ ~pairs[p].cancelled
    /\ ~pairs[p].calcPending
    /\ ~pairs[p].signalPending
    /\ \A g \in {"bkd", "fwd"} :
          /\ pairs[p][g].pc \in {"wait", "done"}
          /\ ~pairs[p][g].stale

\* the backwards scanner has returned the line that starts the file
AtBOF == bout # <<>> /\ bout[Len(bout)].err = "EOF"

\* the forwards scanner has read the file to its end and holds none of it
AtEOFNow == frd = Len(file) /\ fls.sc.buf = <<>>

\* C39: outside follow mode and with no line dropped, whenever both
\* producers are idle and no continue signal is pending, the display lines
\* before the cursor line are at least bkdEager or the backwards scanner is
\* at the start of the file, and the display lines from the cursor line on
\* are at least height or both scanners are exhausted.
C39_IdleMeansFilled ==
    \A p \in Pairs :
        (~cfg.followMode /\ cfg.keepAll /\ Quiet(p)) =>
            /\ LinesBeforeCursor(list) >= cfg.bkdEager \/ AtBOF
            /\ LinesFromCursor(list) >= cfg.height \/ (AtBOF /\ AtEOFNow)

\* ------------------------------------------------------------------- C40
\* caller t runs seekAndOrient in this step: the old backwards scanner is
\* closed, and if all goes well the scanners are new and the list is cleared
Orients(t) == thr[t].pc = "awaitOld" /\ thr'[t].pc # "awaitOld"

\* C40: once SeekAndPopulate has cleared the list, every record inserted
\* was read from the scanners of that or of a later orientation.  No
\* producer of any pair is running when a caller closes the old scanner,
\* makes the new ones and clears the list, so the producers that insert
\* afterwards were started afterwards, with the scanners they found then;
\* no ReadLine is called on a closed backwards scanner; and every record
\* before the line the seek found is a line the backwards scanner of this
\* orientation returned.
C40_NoInsertFromOldPair ==
    /\ [][\A t \in Threads : Orients(t) =>
             \A p \in Pairs : ProducersOver(p) /\ pairs'[p] = pairs[p]]_vars
    /\ [](\A i \in 1..Len(bout) : bout[i].err # ErrUseAfterClose)
    /\ [](\A i \in 1..Len(offs) :
             offs[i] < bout[1].start => \E j \in 2..Len(bout) : bout[j].start = offs[i])

====
